---------------------------- MODULE Spec2Model ----------------------------
(***************************************************************************)
(* SpeedyFibonacci: the benchmark execution and timing engine.             *)
(*                                                                         *)
(*   benchmarking/timer.py             PrecisionTimer.run_for_duration     *)
(*   benchmarking/benchmark_runner.py  BenchmarkRunner.run_all, run_single *)
(*   benchmarking/validators.py        validate_result                     *)
(*   utils/constants.py                KNOWN_FIBONACCI                     *)
(*                                                                         *)
(* The program is single threaded.  A behaviour of the model is one call   *)
(* of a public entry point, either BenchmarkRunner.run_all(techniques) or  *)
(* PrecisionTimer.run_for_duration(func, start_n, validate_func), broken   *)
(* at the calls it makes into a technique (setup, calculate, teardown) and *)
(* at its readings of time.perf_counter().                                 *)
(*                                                                         *)
(* Time is counted in ticks of time.perf_counter(), a monotonic clock.     *)
(* An action acts at the reading `now` and then lets the clock advance by  *)
(* some amount the program does not control; between two readings of the   *)
(* clock by the program there is one such advance.                         *)
(*                                                                         *)
(* Techniques are opaque callables: what a call returns or raises is the   *)
(* environment's choice.  The faults are exceptions deriving from          *)
(* Exception, which is what the techniques of the repository raise.        *)
(* Optional[...] values are sequences: <<>> is None and <<v>> is v.        *)
(***************************************************************************)
EXTENDS Integers, Sequences, FiniteSets, TLC

(***************************************************************************)
(* Bounds of the model.                                                    *)
(***************************************************************************)
\* largest advance of the clock over one action
MaxStep == 1
\* calls of one timed run that may complete within the same clock tick
MaxCalls == 1
\* largest duration of a timer whose run_for_duration is called directly
\* (the smallest is -1)
MaxDuration == 4
\* largest duration a BenchmarkRunner is constructed with (the smallest is 0)
MaxBatchDuration == 1
\* start_n ranges over -MaxStartN .. MaxStartN in a direct timer call
MaxStartN == 1
\* func returns an integer of 0 .. MaxValue
MaxValue == 2
\* the clock reads 0 .. MaxEpoch when run_for_duration is called directly;
\* run_all is called at 0 and its timed runs start at the later readings
MaxEpoch == 1

None == <<>>
Some(v) == <<v>>

Durations == (-1)..MaxDuration
BatchDurations == 0..MaxBatchDuration
StartNs == (0 - MaxStartN)..MaxStartN
Values == 0..MaxValue
Steps == 0..MaxStep

(***************************************************************************)
(* utils/constants.py: the known-value table.  The entries for 50 and      *)
(* above do not fit the integers of the model checker; the indices of the  *)
(* model stay far below them.                                              *)
(***************************************************************************)
KNOWN_FIBONACCI ==
    (0 :> 0) @@ (1 :> 1) @@ (2 :> 1) @@ (3 :> 2) @@ (4 :> 3) @@ (5 :> 5) @@
    (6 :> 8) @@ (7 :> 13) @@ (8 :> 21) @@ (9 :> 34) @@ (10 :> 55) @@
    (11 :> 89) @@ (12 :> 144) @@ (13 :> 233) @@ (14 :> 377) @@ (15 :> 610) @@
    (16 :> 987) @@ (17 :> 1597) @@ (18 :> 2584) @@ (19 :> 4181) @@
    (20 :> 6765) @@ (25 :> 75025) @@ (30 :> 832040) @@ (35 :> 9227465) @@
    (40 :> 102334155) @@ (45 :> 1134903170)

\* an index the table does not hold is refused
validate_resultStrict(n, result) ==
    IF n \in DOMAIN KNOWN_FIBONACCI
    THEN result = KNOWN_FIBONACCI[n]
    ELSE FALSE

\* validators.py: validate_result(n, result)
validate_result(n, result) ==
    IF n \in DOMAIN KNOWN_FIBONACCI
    THEN result = KNOWN_FIBONACCI[n]
    ELSE TRUE

(***************************************************************************)
(* The techniques run_all may be handed: name, description and declared    *)
(* complexities of techniques/01_naive_recursion and 02_memoized_recursion.*)
(***************************************************************************)
TechniquePool ==
    { [name |-> "Naive Recursion",
       description |-> "Classic recursive implementation without optimization",
       time_complexity |-> "O(2^n)",
       space_complexity |-> "O(n)"],
      [name |-> "Memoized Recursion",
       description |-> "Recursion with LRU cache (top-down dynamic programming)",
       time_complexity |-> "O(n)",
       space_complexity |-> "O(n)"] }

\* run_all is handed any list of techniques of the pool without repetition
\* (the names of the techniques of a batch are unique)
TechniqueLists ==
    { l \in UNION { [1..k -> TechniquePool] :
                       k \in 0..Cardinality(TechniquePool) } :
        \A i, j \in 1..Len(l) : l[i] = l[j] => i = j }

(***************************************************************************)
(* Faults a call into a technique may raise.  `isa` holds the classes of   *)
(* the except clauses of run_for_duration the exception is an instance of. *)
(***************************************************************************)
Faults ==
    { [type |-> "RecursionError", isa |-> {"RecursionError"},
       msg |-> "maximum recursion depth exceeded"],
      [type |-> "MemoryError", isa |-> {"MemoryError"}, msg |-> ""],
      [type |-> "OverflowError", isa |-> {"OverflowError"},
       msg |-> "int too large to convert to float"],
      [type |-> "ValueError", isa |-> {},
       msg |-> "n must be non-negative"],
      [type |-> "StackAndHeapError", isa |-> {"RecursionError", "MemoryError"},
       msg |-> "exhausted"] }

\* what a setup() or a teardown() may raise (07_numpy_vectorized: setup)
HookFaults ==
    { [type |-> "RuntimeError", isa |-> {},
       msg |-> "NumPy is required for this technique"] }

VARIABLES
    entry,          \* the entry point called: "run_all" or "run_for_duration"
    pc,             \* position of the program
    now,            \* time.perf_counter()
    techniques,     \* run_all: the list of techniques
    validate,       \* BenchmarkRunner.validate / validate_func is not None
    duration,       \* PrecisionTimer.duration
    start_n,        \* run_for_duration: the argument start_n
    batch_start,    \* run_all: start_time
    results,        \* run_all: results
    summary,        \* what run_all returned
    start_time,     \* run_for_duration: start_time
    n,              \* run_for_duration: n
    count,          \* run_for_duration: count
    error_msg,      \* run_for_duration: error_msg
    first_elapsed,  \* elapsed time read by the first evaluation of the
                    \* while condition of the timed run, until run_single
                    \* returns
    timing_result,  \* what run_for_duration returned last
    calls,          \* the calls made into techniques, in order
    views,          \* the calls made to the views of `summary`, in order
    fn,             \* the function or technique called last, "" before any
    args,           \* the arguments of that call
    ret,            \* what that call returned or raised
    ran,            \* the cached, compiled or library code it entered
    cache,          \* MemoizedRecursion: the lru_cache of self._fib
    NUMPY_AVAILABLE,    \* 07_numpy_vectorized: numpy could be imported
    NUMBA_AVAILABLE,    \* 08_numba_jit: numba could be imported
    CYTHON_AVAILABLE    \* 09_cython_optimized: fibonacci_impl is compiled

vars == << entry, pc, now, techniques, validate, duration, start_n,
           batch_start, results, summary, start_time, n, count, error_msg,
           first_elapsed, timing_result, calls, views, fn, args, ret, ran,
           cache, NUMPY_AVAILABLE, NUMBA_AVAILABLE, CYTHON_AVAILABLE >>

runnerVars == << batch_start, results, summary >>
timerVars == << start_time, n, count, error_msg, first_elapsed >>
inputVars == << entry, techniques, validate, duration >>
\* the last call made to a technique or to a validator, and the state of
\* the techniques
techVars == << fn, args, ret, ran, cache, NUMPY_AVAILABLE, NUMBA_AVAILABLE,
               CYTHON_AVAILABLE >>
\* what the runner and the timer never touch
sideVars == << views, techVars >>

\* no technique and no validator has been called, every optional package
\* is installed
TechIdle ==
    /\ fn = ""
    /\ args = << >>
    /\ ret = << >>
    /\ ran = {}
    /\ cache = {}
    /\ NUMPY_AVAILABLE = TRUE
    /\ NUMBA_AVAILABLE = TRUE
    /\ CYTHON_AVAILABLE = TRUE

\* the technique being benchmarked: position in `techniques`, or 1 when
\* run_for_duration is called directly
Current == IF entry = "run_all" THEN Len(results) + 1 ELSE 1

\* an entry of `calls`: technique t was called with op(n); out is "ok" when
\* the call returned, "rejected" when it returned a value the validation
\* predicate refused, "fault" when it raised exc[1]
Call(op, arg, out, exc) ==
    [t |-> Current, op |-> op, n |-> arg, out |-> out, exc |-> exc]

(***************************************************************************)
(* timer.py: run_for_duration                                              *)
(***************************************************************************)
\* the deadline compared with <= : a call is made at elapsed = duration
DeadlineInclusive(t, start, d) == (t - start) <= d

\* the loop gives up one tick before the deadline
DeadlineEarly(t, start, d) == (t - start) < d - 1

\* line 81: the while condition, for a clock reading t
DeadlineNotReached(t, start, d) == (t - start) < d

\* line 87
ValidationTag(k) == "Validation failed at n=" \o ToString(k)

\* the except clauses with MemoryError tried before RecursionError
ClassifyFaultReordered(f, k) ==
    IF "MemoryError" \in f.isa THEN "MemoryError at n=" \o ToString(k)
    ELSE IF "RecursionError" \in f.isa
    THEN "RecursionError at n=" \o ToString(k)
    ELSE IF "OverflowError" \in f.isa THEN "OverflowError at n=" \o ToString(k)
    ELSE f.type \o " at n=" \o ToString(k) \o ": " \o f.msg

\* lines 93-100: the except clauses, in order
ClassifyFault(f, k) ==
    IF "RecursionError" \in f.isa THEN "RecursionError at n=" \o ToString(k)
    ELSE IF "MemoryError" \in f.isa THEN "MemoryError at n=" \o ToString(k)
    ELSE IF "OverflowError" \in f.isa THEN "OverflowError at n=" \o ToString(k)
    ELSE f.type \o " at n=" \o ToString(k) \o ": " \o f.msg

\* max_n without the count > 0 test
MaxNUnguarded(k, c) == k - 1

\* line 103
MaxN(k, c) == IF c > 0 THEN k - 1 ELSE 0

\* lines 105-110
TimingResult(c, k, elapsed, err) ==
    [count |-> c, max_n |-> MaxN(k, c), actual_duration |-> elapsed,
     error |-> err]

\* the elapsed time of the first evaluation of the while condition
NoteFirstCheck ==
    first_elapsed' = IF first_elapsed = None THEN Some(now - start_time)
                     ELSE first_elapsed

\* a call that completes within the tick is possible for the first MaxCalls
\* calls of a run; this keeps a timed run finite
CallSteps == IF count < MaxCalls THEN Steps ELSE Steps \ {0}

\* the count is kept on the shared timer and not cleared between runs
TimerStartKeepsCount ==
    /\ pc = "timer"
    /\ start_time' = now
    /\ n' = start_n
    /\ count' = IF timing_result = None THEN 0 ELSE timing_result[1].count
    /\ error_msg' = None
    /\ first_elapsed' = None
    /\ pc' = "while"
    /\ \E dt \in Steps : now' = now + dt
    /\ UNCHANGED sideVars
    /\ UNCHANGED << inputVars, start_n, runnerVars, timing_result, calls >>

\* lines 75-78: read the clock, n = start_n, count = 0
TimerStart ==
    /\ pc = "timer"
    /\ start_time' = now
    /\ n' = start_n
    /\ count' = 0
    /\ error_msg' = None
    /\ first_elapsed' = None
    /\ pc' = "while"
    /\ \E dt \in Steps : now' = now + dt
    /\ UNCHANGED sideVars
    /\ UNCHANGED << inputVars, start_n, runnerVars, timing_result, calls >>

\* the validation failure is recorded but the loop is not left
CallReturnsNoBreak(v, dt) ==
    /\ pc = "while"
    /\ DeadlineNotReached(now, start_time, duration)
    /\ NoteFirstCheck
    /\ IF validate /\ ~validate_result(n, v)
       THEN /\ error_msg' = Some(ValidationTag(n))
            /\ calls' = Append(calls, Call("calculate", n, "rejected", None))
       ELSE /\ calls' = Append(calls, Call("calculate", n, "ok", None))
            /\ UNCHANGED error_msg
    /\ count' = count + 1
    /\ n' = n + 1
    /\ now' = now + dt
    /\ UNCHANGED sideVars
    /\ UNCHANGED << inputVars, pc, start_n, runnerVars, start_time,
                    timing_result >>

\* count is incremented before the validation instead of after it
CallReturnsCountsFirst(v, dt) ==
    /\ pc = "while"
    /\ DeadlineNotReached(now, start_time, duration)
    /\ NoteFirstCheck
    /\ count' = count + 1
    /\ IF validate /\ ~validate_result(n, v)
       THEN /\ error_msg' = Some(ValidationTag(n))
            /\ pc' = "exit"
            /\ calls' = Append(calls, Call("calculate", n, "rejected", None))
            /\ UNCHANGED n
       ELSE /\ n' = n + 1
            /\ calls' = Append(calls, Call("calculate", n, "ok", None))
            /\ UNCHANGED << pc, error_msg >>
    /\ now' = now + dt
    /\ UNCHANGED sideVars
    /\ UNCHANGED << inputVars, start_n, runnerVars, start_time,
                    timing_result >>

\* n is advanced before the value is validated
CallReturnsAdvancesFirst(v, dt) ==
    /\ pc = "while"
    /\ DeadlineNotReached(now, start_time, duration)
    /\ NoteFirstCheck
    /\ n' = n + 1
    /\ IF validate /\ ~validate_result(n, v)
       THEN /\ error_msg' = Some(ValidationTag(n + 1))
            /\ pc' = "exit"
            /\ calls' = Append(calls, Call("calculate", n, "rejected", None))
            /\ UNCHANGED count
       ELSE /\ count' = count + 1
            /\ calls' = Append(calls, Call("calculate", n, "ok", None))
            /\ UNCHANGED << pc, error_msg >>
    /\ now' = now + dt
    /\ UNCHANGED sideVars
    /\ UNCHANGED << inputVars, start_n, runnerVars, start_time,
                    timing_result >>

\* lines 81-91: the deadline is not reached, func(n) returns v
CallReturns(v, dt) ==
    /\ pc = "while"
    /\ DeadlineNotReached(now, start_time, duration)
    /\ NoteFirstCheck
    /\ IF validate /\ ~validate_result(n, v)
       THEN /\ error_msg' = Some(ValidationTag(n))
            /\ pc' = "exit"
            /\ calls' = Append(calls, Call("calculate", n, "rejected", None))
            /\ UNCHANGED << n, count >>
       ELSE /\ count' = count + 1
            /\ n' = n + 1
            /\ calls' = Append(calls, Call("calculate", n, "ok", None))
            /\ UNCHANGED << pc, error_msg >>
    /\ now' = now + dt
    /\ UNCHANGED sideVars
    /\ UNCHANGED << inputVars, start_n, runnerVars, start_time,
                    timing_result >>

\* lines 81-82, 93-100: the deadline is not reached, func(n) raises f
CallFaults(f, dt) ==
    /\ pc = "while"
    /\ DeadlineNotReached(now, start_time, duration)
    /\ NoteFirstCheck
    /\ error_msg' = Some(ClassifyFault(f, n))
    /\ pc' = "exit"
    /\ calls' = Append(calls, Call("calculate", n, "fault", Some(f)))
    /\ now' = now + dt
    /\ UNCHANGED sideVars
    /\ UNCHANGED << inputVars, start_n, runnerVars, start_time, n, count,
                    timing_result >>

\* line 81: the while condition is false
Deadline ==
    /\ pc = "while"
    /\ ~DeadlineNotReached(now, start_time, duration)
    /\ NoteFirstCheck
    /\ pc' = "exit"
    /\ \E dt \in Steps : now' = now + dt
    /\ UNCHANGED sideVars
    /\ UNCHANGED << inputVars, start_n, runnerVars, start_time, n, count,
                    error_msg, timing_result, calls >>

\* lines 102-110: read the clock again and return; the locals of the call
\* are gone
TimerReturn ==
    /\ pc = "exit"
    /\ timing_result' =
           Some(TimingResult(count, n, now - start_time, error_msg))
    /\ pc' = IF entry = "run_all" THEN "teardown" ELSE "done"
    /\ start_time' = 0 /\ n' = 0 /\ count' = 0 /\ error_msg' = None
    /\ UNCHANGED sideVars
    /\ UNCHANGED << inputVars, now, start_n, runnerVars, first_elapsed,
                    calls >>

(***************************************************************************)
(* benchmark_runner.py: run_all and run_single                             *)
(***************************************************************************)
\* lines 193-202
SetupFailedResult(tech, msg) ==
    [technique_name |-> tech.name, description |-> tech.description,
     count |-> 0, max_n |-> 0, duration |-> 0,
     time_complexity |-> tech.time_complexity,
     space_complexity |-> tech.space_complexity,
     error |-> Some("Setup failed: " \o msg)]

\* lines 220-229
BenchmarkResult(tech, tr) ==
    [technique_name |-> tech.name, description |-> tech.description,
     count |-> tr.count, max_n |-> tr.max_n, duration |-> tr.actual_duration,
     time_complexity |-> tech.time_complexity,
     space_complexity |-> tech.space_complexity,
     error |-> tr.error]

\* a result that counted at least one call is a success
successByCount(r) == r.count > 0

\* lines 53-56: the success property of a BenchmarkResult
success(r) == r.error = None

\* the result is put in front of the list
PrependResult(rs, r) == << r >> \o rs

\* line 161
AppendResult(rs, r) == Append(rs, r)

\* lines 143-155
RunAllStart ==
    /\ pc = "run_all"
    /\ batch_start' = now
    /\ results' = << >>
    /\ pc' = "for"
    /\ UNCHANGED sideVars
    /\ UNCHANGED << inputVars, now, start_n, summary, timerVars,
                    timing_result, calls >>

\* lines 156-160, 190-191, 204-212: the next technique's setup() returns and
\* run_single calls run_for_duration with start_n = 0
SetupReturns ==
    /\ pc = "for"
    /\ Len(results) < Len(techniques)
    /\ calls' = Append(calls, Call("setup", 0, "ok", None))
    /\ start_n' = 0
    /\ pc' = "timer"
    /\ UNCHANGED sideVars
    /\ UNCHANGED << inputVars, now, runnerVars, timerVars, timing_result >>

\* the fault of setup() is swallowed and the timed run is made all the same
SetupFaultsRunsAnyway(f) ==
    /\ pc = "for"
    /\ Len(results) < Len(techniques)
    /\ calls' = Append(calls, Call("setup", 0, "fault", Some(f)))
    /\ start_n' = 0
    /\ pc' = "timer"
    /\ UNCHANGED sideVars
    /\ UNCHANGED << inputVars, now, runnerVars, timerVars, timing_result >>

\* lines 156-161, 190-202: the next technique's setup() raises
SetupFaults(f) ==
    /\ pc = "for"
    /\ Len(results) < Len(techniques)
    /\ calls' = Append(calls, Call("setup", 0, "fault", Some(f)))
    /\ results' = AppendResult(results,
                      SetupFailedResult(techniques[Len(results) + 1], f.msg))
    /\ pc' = "for"
    /\ \E dt \in Steps : now' = now + dt
    /\ UNCHANGED sideVars
    /\ UNCHANGED << inputVars, start_n, batch_start, summary, timerVars,
                    timing_result >>

\* a fault of teardown() is reported in the result
TeardownOverwrites(exc) ==
    /\ pc = "teardown"
    /\ calls' = Append(calls,
                    Call("teardown", 0,
                         IF exc = None THEN "ok" ELSE "fault", exc))
    /\ results' = AppendResult(results,
                      BenchmarkResult(techniques[Len(results) + 1],
                          IF exc = None THEN timing_result[1]
                          ELSE [timing_result[1] EXCEPT
                                   !.error = Some("Teardown failed: "
                                                  \o exc[1].msg)]))
    /\ pc' = "for"
    /\ first_elapsed' = None
    /\ \E dt \in Steps : now' = now + dt
    /\ UNCHANGED sideVars
    /\ UNCHANGED << inputVars, start_n, batch_start, summary, start_time, n,
                    count, error_msg, timing_result >>

\* a fault of teardown() is not caught: it leaves run_single and run_all
TeardownPropagates(exc) ==
    /\ pc = "teardown"
    /\ calls' = Append(calls,
                    Call("teardown", 0,
                         IF exc = None THEN "ok" ELSE "fault", exc))
    /\ IF exc = None
       THEN /\ results' = AppendResult(results,
                              BenchmarkResult(techniques[Len(results) + 1],
                                              timing_result[1]))
            /\ pc' = "for"
       ELSE /\ pc' = "raised"
            /\ UNCHANGED results
    /\ first_elapsed' = None
    /\ \E dt \in Steps : now' = now + dt
    /\ UNCHANGED sideVars
    /\ UNCHANGED << inputVars, start_n, batch_start, summary, start_time, n,
                    count, error_msg, timing_result >>

\* teardown() is skipped when the timed run ended with an error
TeardownOnlyOnSuccess(exc) ==
    /\ pc = "teardown"
    /\ calls' = IF timing_result[1].error = None
                THEN Append(calls,
                         Call("teardown", 0,
                              IF exc = None THEN "ok" ELSE "fault", exc))
                ELSE calls
    /\ results' = AppendResult(results,
                      BenchmarkResult(techniques[Len(results) + 1],
                                      timing_result[1]))
    /\ pc' = "for"
    /\ first_elapsed' = None
    /\ \E dt \in Steps : now' = now + dt
    /\ UNCHANGED sideVars
    /\ UNCHANGED << inputVars, start_n, batch_start, summary, start_time, n,
                    count, error_msg, timing_result >>

\* lines 214-229, 161: teardown() returns (exc is None) or raises exc[1], the
\* result is assembled and appended
Teardown(exc) ==
    /\ pc = "teardown"
    /\ calls' = Append(calls,
                    Call("teardown", 0,
                         IF exc = None THEN "ok" ELSE "fault", exc))
    /\ results' = AppendResult(results,
                      BenchmarkResult(techniques[Len(results) + 1],
                                      timing_result[1]))
    /\ pc' = "for"
    /\ first_elapsed' = None
    /\ \E dt \in Steps : now' = now + dt
    /\ UNCHANGED sideVars
    /\ UNCHANGED << inputVars, start_n, batch_start, summary, start_time, n,
                    count, error_msg, timing_result >>

\* the sum of the durations of a list of results
RECURSIVE SumOfDurations(_)
SumOfDurations(rs) ==
    IF rs = << >>
    THEN 0
    ELSE rs[1].duration + SumOfDurations(Tail(rs))

\* total_duration is the sum of the durations of the results
RunAllReturnSumsDurations ==
    /\ pc = "for"
    /\ Len(results) = Len(techniques)
    /\ summary' = Some([results |-> results,
                        total_duration |-> SumOfDurations(results)])
    /\ pc' = "done"
    /\ UNCHANGED sideVars
    /\ UNCHANGED << inputVars, now, start_n, batch_start, results, timerVars,
                    timing_result, calls >>

\* lines 169-177
RunAllReturn ==
    /\ pc = "for"
    /\ Len(results) = Len(techniques)
    /\ summary' = Some([results |-> results,
                        total_duration |-> now - batch_start])
    /\ pc' = "done"
    /\ UNCHANGED sideVars
    /\ UNCHANGED << inputVars, now, start_n, batch_start, results, timerVars,
                    timing_result, calls >>

(***************************************************************************)
(* The specification                                                       *)
(***************************************************************************)
Init ==
    /\ entry \in {"run_all", "run_for_duration"}
    /\ validate \in BOOLEAN
    /\ IF entry = "run_all"
       THEN /\ techniques \in TechniqueLists
            /\ duration \in BatchDurations
            /\ now = 0
            /\ start_n = 0
            /\ pc = "run_all"
       ELSE /\ techniques = << >>
            /\ duration \in Durations
            /\ now \in 0..MaxEpoch
            /\ start_n \in StartNs
            /\ pc = "timer"
    /\ batch_start = 0
    /\ results = << >>
    /\ summary = None
    /\ start_time = 0
    /\ n = 0
    /\ count = 0
    /\ error_msg = None
    /\ first_elapsed = None
    /\ timing_result = None
    /\ calls = << >>
    /\ views = << >>
    /\ TechIdle

Next ==
    \/ TimerStart
    \/ \E v \in Values, dt \in CallSteps : CallReturns(v, dt)
    \/ \E f \in Faults, dt \in Steps : CallFaults(f, dt)
    \/ Deadline
    \/ TimerReturn
    \/ RunAllStart
    \/ SetupReturns
    \/ \E f \in HookFaults : SetupFaults(f)
    \/ \E exc \in {None} \cup {Some(f) : f \in HookFaults} : Teardown(exc)
    \/ RunAllReturn

Spec == Init /\ [][Next]_vars

(***************************************************************************)
(* run_all called on a runner, with the timer it owns                      *)
(***************************************************************************)
BatchInit == Init /\ entry = "run_all"

BatchSpec == BatchInit /\ [][Next]_vars

(***************************************************************************)
(* Vocabulary of the properties                                            *)
(***************************************************************************)
\* the calculate calls technique t received, in order
CalcCalls(log, t) ==
    SelectSeq(log, LAMBDA c : c.t = t /\ c.op = "calculate")

\* the last calculate call of technique t, if any, did not succeed
Failed(log, t) ==
    LET cs == CalcCalls(log, t)
    IN  cs # << >> /\ cs[Len(cs)].out # "ok"

\* run_for_duration has returned and nothing has happened since
Returned == pc = (IF entry = "run_all" THEN "teardown" ELSE "done")

TR == timing_result[1]

LastCalc == LET cs == CalcCalls(calls, Current) IN cs[Len(cs)]

(***************************************************************************)
(* C1: once a call func(n) faults or is refused by the validation          *)
(* predicate, func is not called again in that run, count stays as it is   *)
(* and the run returns that count with an error that is not None; if it    *)
(* was the first call of the run, the count returned is 0.                 *)
(***************************************************************************)
C1_HaltsOnFailure ==
    [][ (pc \in {"while", "exit"} /\ Failed(calls, Current)) =>
          /\ CalcCalls(calls', Current) = CalcCalls(calls, Current)
          /\ \/ pc' = "exit" /\ count' = count /\ error_msg' = error_msg
             \/ /\ pc' = (IF entry = "run_all" THEN "teardown" ELSE "done")
                /\ timing_result' # None
                /\ timing_result'[1].error # None
                /\ timing_result'[1].count = count
                /\ Len(CalcCalls(calls, Current)) = 1
                       => timing_result'[1].count = 0 ]_vars

\* a run whose very first call failed has returned
C1_Witness ==
    /\ Returned
    /\ Failed(calls, Current)
    /\ Len(CalcCalls(calls, Current)) = 1
    /\ TR.count = 0
    /\ TR.error # None

(***************************************************************************)
(* C2: however the loop was left, the max_n returned is                    *)
(* start_n + count - 1 when count > 0 and 0 when count = 0.                *)
(***************************************************************************)
C2_MaxN ==
    Returned =>
        TR.max_n = (IF TR.count > 0 THEN start_n + TR.count - 1 ELSE 0)

\* a run from a negative start_n left by a failure after three good calls
C2_Witness ==
    /\ Returned
    /\ start_n = -1
    /\ TR.count = 3
    /\ TR.error # None
    /\ TR.max_n = 1

(***************************************************************************)
(* C3: when the validation predicate refuses the k-th call, whose index    *)
(* is start_n + k - 1, the run returns count = k - 1 and the error         *)
(* "Validation failed at n=<start_n + k - 1>".                             *)
(***************************************************************************)
C3_ValidationFailure ==
    (Returned /\ Failed(calls, Current) /\ LastCalc.out = "rejected") =>
        LET k == Len(CalcCalls(calls, Current))
        IN  /\ LastCalc.n = start_n + k - 1
            /\ TR.count = k - 1
            /\ TR.error =
                   Some("Validation failed at n=" \o ToString(start_n + k - 1))

\* the fifth call of a run from 0 was refused
C3_Witness ==
    /\ Returned
    /\ start_n = 0
    /\ Len(CalcCalls(calls, Current)) = 5
    /\ LastCalc.out = "rejected"
    /\ TR.count = 4
    /\ TR.error = Some("Validation failed at n=4")

(***************************************************************************)
(* C4 as stated: a fault of func(n) is tagged, by the first class that     *)
(* matches, "recursion limit exceeded at n=<n>", "out of memory at n=<n>", *)
(* "overflow at n=<n>" or "<fault kind> at n=<n>: <message>".              *)
(***************************************************************************)
SpecTag(f, k) ==
    IF "RecursionError" \in f.isa
    THEN "recursion limit exceeded at n=" \o ToString(k)
    ELSE IF "MemoryError" \in f.isa THEN "out of memory at n=" \o ToString(k)
    ELSE IF "OverflowError" \in f.isa THEN "overflow at n=" \o ToString(k)
    ELSE f.type \o " at n=" \o ToString(k) \o ": " \o f.msg

C4_SpecTags ==
    (Returned /\ Failed(calls, Current) /\ LastCalc.out = "fault") =>
        TR.error = Some(SpecTag(LastCalc.exc[1], LastCalc.n))

(***************************************************************************)
(* C4: a fault of func(n) yields exactly one tag, by the first class that  *)
(* matches: a RecursionError gives "RecursionError at n=<n>", else a       *)
(* MemoryError gives "MemoryError at n=<n>", else an OverflowError gives   *)
(* "OverflowError at n=<n>", and any other exception gives                 *)
(* "<type name> at n=<n>: <message>"; <n> is the index of the faulting     *)
(* call, start_n + count.                                                  *)
(***************************************************************************)
CodeTag(f, k) ==
    LET at == " at n=" \o ToString(k)
    IN  CASE "RecursionError" \in f.isa -> "RecursionError" \o at
          [] "RecursionError" \notin f.isa /\ "MemoryError" \in f.isa ->
                 "MemoryError" \o at
          [] f.isa = {"OverflowError"} -> "OverflowError" \o at
          [] f.isa = {} -> f.type \o at \o ": " \o f.msg

C4_FaultTags ==
    (Returned /\ Failed(calls, Current) /\ LastCalc.out = "fault") =>
        /\ LastCalc.n = start_n + TR.count
        /\ TR.error = Some(CodeTag(LastCalc.exc[1], LastCalc.n))

\* a fault that is both a RecursionError and a MemoryError was raised by the
\* second call of a run
C4_Witness ==
    /\ Returned
    /\ Failed(calls, Current)
    /\ LastCalc.out = "fault"
    /\ LastCalc.exc[1].isa = {"RecursionError", "MemoryError"}
    /\ TR.count = 1
    /\ TR.error = Some("RecursionError at n=" \o ToString(start_n + 1))

(***************************************************************************)
(* C5: the deadline is tested before every call, the first included: with  *)
(* duration <= 0 func is never called and the run returns count = 0,       *)
(* max_n = 0 and no error.                                                 *)
(***************************************************************************)
C5_NonPositiveDuration ==
    duration <= 0 =>
        /\ \A j \in 1..Len(calls) : calls[j].op # "calculate"
        /\ Returned =>
               (TR.count = 0 /\ TR.max_n = 0 /\ TR.error = None)

\* a run with duration 0 and a start_n other than 0 has returned
C5_Witness ==
    /\ Returned
    /\ duration = 0
    /\ start_n = 1
    /\ TR.count = 0

(***************************************************************************)
(* C6 as stated: with a positive duration d and calls that all return and  *)
(* pass validation, the run returns no error, actual_duration >= d and     *)
(* count >= 1.                                                             *)
(***************************************************************************)
C6_AtLeastOneCall ==
    (Returned /\ duration > 0 /\ ~Failed(calls, Current)) =>
        /\ TR.error = None
        /\ TR.actual_duration >= duration
        /\ TR.count >= 1

(***************************************************************************)
(* C6: when the calls all return and pass validation the run returns no    *)
(* error; whenever the returned error is None, actual_duration is at least *)
(* the configured duration, and count >= 1 exactly when the first test of  *)
(* the deadline read an elapsed time below the duration, which a positive  *)
(* duration does not guarantee.                                            *)
(***************************************************************************)
C6_ElapsedCoversDuration ==
    Returned =>
        /\ ~Failed(calls, Current) => TR.error = None
        /\ TR.error = None =>
               /\ TR.actual_duration >= duration
               /\ first_elapsed # None
               /\ (TR.count >= 1) <=> (first_elapsed[1] < duration)

\* a run of positive duration returned after good calls, later than asked
C6_Witness ==
    /\ Returned
    /\ duration = 2
    /\ TR.error = None
    /\ TR.count >= 1
    /\ TR.actual_duration > duration

\* the calls technique t received (t is a position in `techniques`)
CallsOf(t) == SelectSeq(calls, LAMBDA c : c.t = t)

\* the setup() of technique t raised
SetupFaulted(t) ==
    \E j \in 1..Len(calls) :
        calls[j].t = t /\ calls[j].op = "setup" /\ calls[j].out = "fault"

\* the number of calculate calls of technique t that succeeded
GoodCalls(t) ==
    Len(SelectSeq(CalcCalls(calls, t), LAMBDA c : c.out = "ok"))

(***************************************************************************)
(* C7: when setup() of a technique raises, its result has count = 0,       *)
(* max_n = 0, duration = 0 and error "Setup failed: <message>", and        *)
(* neither calculate nor teardown of that technique is ever called.        *)
(***************************************************************************)
C7_SetupFailure ==
    \A t \in 1..Len(techniques) :
        SetupFaulted(t) =>
            /\ Len(CallsOf(t)) = 1
            /\ Len(results) >= t
            /\ results[t].count = 0
            /\ results[t].max_n = 0
            /\ results[t].duration = 0
            /\ results[t].error =
                   Some("Setup failed: " \o CallsOf(t)[1].exc[1].msg)

\* the batch is over and the first of two techniques failed in setup
C7_Witness ==
    /\ entry = "run_all"
    /\ pc = "done"
    /\ Len(techniques) = 2
    /\ SetupFaulted(1)
    /\ ~SetupFaulted(2)
    /\ results[1].error =
           Some("Setup failed: NumPy is required for this technique")

(***************************************************************************)
(* C8: a fault of teardown() never changes the result: the result carries  *)
(* the count, max_n, duration and error of the timed run, as it does when  *)
(* teardown returns, and run_single returns normally.                      *)
(***************************************************************************)
C8_TeardownSwallowed ==
    (calls # << >> /\ calls[Len(calls)].op = "teardown") =>
        LET r == results[Len(results)]
        IN  /\ pc \in {"for", "done"}
            /\ Len(results) = calls[Len(calls)].t
            /\ r.count = TR.count
            /\ r.max_n = TR.max_n
            /\ r.duration = TR.actual_duration
            /\ r.error = TR.error

\* teardown raised after a timed run that ended without error
C8_Witness ==
    /\ calls # << >>
    /\ calls[Len(calls)].op = "teardown"
    /\ calls[Len(calls)].out = "fault"
    /\ results[Len(results)].error = None
    /\ results[Len(results)].count >= 1

C10_SubmissionOrder ==
    /\ Len(results) <= Len(techniques)
    /\ \A t \in 1..Len(results) :
           results[t].technique_name = techniques[t].name
    /\ pc = "done" /\ entry = "run_all" =>
           /\ Len(summary[1].results) = Len(techniques)
           /\ \A t \in 1..Len(techniques) :
                  summary[1].results[t].technique_name = techniques[t].name

\* two techniques of different names, the first one failed and counts less
C10_Witness ==
    /\ entry = "run_all"
    /\ pc = "done"
    /\ Len(techniques) = 2
    /\ techniques[1].name # techniques[2].name
    /\ summary[1].results[1].error # None
    /\ summary[1].results[1].count < summary[1].results[2].count
    /\ summary[1].results[2].technique_name = techniques[2].name

(***************************************************************************)
(* C11: run_single goes through setup, timed run, teardown, result, in     *)
(* that order and each once: setup() is the first call a technique gets    *)
(* and it gets it once; when setup() returned, teardown() is called once,  *)
(* after the last calculate call, whether the loop ended by the deadline,  *)
(* a refused value or a fault; when setup() raised nothing else is         *)
(* called; the result exists only once teardown() has been called.         *)
(***************************************************************************)
C11_PhaseOrder ==
    entry = "run_all" =>
        \A t \in 1..Len(techniques) :
            LET cs == CallsOf(t)
            IN  /\ \A i \in 1..Len(cs) :
                       /\ (cs[i].op = "setup") <=> (i = 1)
                       /\ cs[i].op = "teardown" =>
                              i = Len(cs) /\ cs[1].out = "ok"
                /\ (cs # << >> /\ cs[1].out # "ok") => Len(cs) = 1
                /\ t <= Len(results) =>
                       /\ cs # << >>
                       /\ cs[1].out = "ok" => cs[Len(cs)].op = "teardown"
                /\ t > Len(results) =>
                       /\ \A i \in 1..Len(cs) : cs[i].op # "teardown"
                       /\ cs # << >> => cs[1].out = "ok"

\* the loop of the first technique ended by a
\* fault, that of the second by the deadline, teardown followed both
C11_Witness ==
    /\ entry = "run_all"
    /\ Len(results) = 2
    /\ Failed(calls, 1)
    /\ CallsOf(1)[Len(CallsOf(1))].op = "teardown"
    /\ ~Failed(calls, 2)
    /\ ~SetupFaulted(2)
    /\ Len(CalcCalls(calls, 2)) >= 1
    /\ CallsOf(2)[Len(CallsOf(2))].op = "teardown"

C20_SuccessIffCleanRun ==
    entry = "run_all" =>
        \A t \in 1..Len(results) :
            /\ success(results[t]) <=>
                   (~SetupFaulted(t) /\ ~Failed(calls, t))
            /\ SetupFaulted(t) => ~success(results[t])
            /\ LET cs == CalcCalls(calls, t)
               IN  \A k \in 1..Len(cs) :
                       cs[k].out \in {"rejected", "fault"}
                           => ~success(results[t])

\* one batch with a success that counted nothing (the deadline had passed
\* at the first check) and a failure that counted one call
C20_Witness ==
    /\ entry = "run_all"
    /\ Len(results) = 2
    /\ success(results[1])
    /\ results[1].count = 0
    /\ ~SetupFaulted(1)
    /\ ~success(results[2])
    /\ results[2].count = 1
    /\ Failed(calls, 2)

(***************************************************************************)
(* C24: the total_duration of the summary is the time from the reading of  *)
(* the clock at the start of run_all to the reading at its end, which is   *)
(* at least the sum of the durations of the results, a technique whose     *)
(* setup() raised counting for 0; it is not that sum.                      *)
(***************************************************************************)
C24_TotalDuration ==
    (entry = "run_all" /\ pc = "done") =>
        /\ summary[1].total_duration = now - batch_start
        /\ summary[1].total_duration >= SumOfDurations(summary[1].results)
        /\ \A t \in 1..Len(results) :
               SetupFaulted(t) => summary[1].results[t].duration = 0

\* a batch of two techniques: the setup of the first raised, the second ran
\* and the batch took longer than its timed run
C24_Witness ==
    /\ entry = "run_all"
    /\ pc = "done"
    /\ Len(results) = 2
    /\ SetupFaulted(1)
    /\ summary[1].results[2].duration >= 1
    /\ summary[1].total_duration > SumOfDurations(summary[1].results)

(***************************************************************************)
(* run_for_duration called directly, on its own                            *)
(***************************************************************************)
TimerInit == Init /\ entry = "run_for_duration"

TimerNext ==
    \/ TimerStart
    \/ \E v \in Values, dt \in CallSteps : CallReturns(v, dt)
    \/ \E f \in Faults, dt \in Steps : CallFaults(f, dt)
    \/ Deadline
    \/ TimerReturn

TimerSpec == TimerInit /\ [][TimerNext]_vars

(***************************************************************************)
(* C27: in run_for_duration func is called at start_n, start_n + 1,        *)
(* start_n + 2, ..., each index once and in that order, and                *)
(* n = start_n + count at every test of the deadline; on return func has   *)
(* been called count times when error is None and count + 1 times when it  *)
(* is not, and the index an error tag names is start_n + count.            *)
(***************************************************************************)
C27_ConsecutiveIndices ==
    LET cs == CalcCalls(calls, Current)
    IN  /\ \A i \in 1..Len(cs) : cs[i].n = start_n + i - 1
        /\ pc = "while" => (n = start_n + count /\ Len(cs) = count)
        /\ Returned =>
               /\ Len(cs) = (IF TR.error = None THEN TR.count
                             ELSE TR.count + 1)
               /\ TR.error # None =>
                      TR.error =
                          IF cs[Len(cs)].out = "rejected"
                          THEN Some("Validation failed at n="
                                    \o ToString(start_n + TR.count))
                          ELSE Some(CodeTag(cs[Len(cs)].exc[1],
                                            start_n + TR.count))

\* a run from start_n = 1 made two good calls and was refused at the third
C27_Witness ==
    /\ entry = "run_for_duration"
    /\ Returned
    /\ start_n = 1
    /\ Len(CalcCalls(calls, 1)) = 3
    /\ TR.count = 2
    /\ TR.error = Some("Validation failed at n=3")

(***************************************************************************)
(* benchmark_runner.py: the views of a BenchmarkSummary                    *)
(***************************************************************************)
MaxResults == 3
MaxKey == 1
MaxViews == 2

\* the names of the techniques, in the order of their directories
TechniqueNames ==
    << "Naive Recursion", "Memoized Recursion", "Dynamic Programming",
       "Matrix Exponentiation", "Binet's Formula", "Generator-based",
       "NumPy Vectorized", "Numba JIT", "Cython Optimized",
       "Iterative Space-Optimized", "Fast Doubling", "Parallel Processing" >>

\* a BenchmarkResult as the views see it: they read count and max_n only;
\* the name tells the results of one summary apart
SummaryResult(i, c, k) ==
    [technique_name |-> TechniqueNames[i], description |-> "",
     count |-> c, max_n |-> k, duration |-> 1,
     time_complexity |-> "", space_complexity |-> "", error |-> None]

\* the lists of results a summary may hold
ResultLists ==
    UNION { { [i \in 1..len |-> SummaryResult(i, ck[i][1], ck[i][2])] :
                ck \in [1..len -> (0..MaxKey) \X (0..MaxKey)] } :
            len \in 0..MaxResults }

\* list[::-1], and the reversals done by list.sort(reverse=True)
Reverse(l) == [i \in 1..Len(l) |-> l[Len(l) + 1 - i]]

\* one step of a stable insertion: x goes behind every item of the sorted
\* list l whose key is not greater than its own
RECURSIVE InsertStable(_, _, _)
InsertStable(l, x, key) ==
    IF l = << >> \/ l[Len(l)][key] <= x[key]
    THEN Append(l, x)
    ELSE Append(InsertStable(SubSeq(l, 1, Len(l) - 1), x, key), l[Len(l)])

\* list.sort(key=...): stable, ascending
RECURSIVE StableSort(_, _)
StableSort(l, key) ==
    IF l = << >>
    THEN << >>
    ELSE InsertStable(StableSort(SubSeq(l, 1, Len(l) - 1), key),
                      l[Len(l)], key)

\* the sort is made ascending and its outcome reversed
sortedThenReversed(l, key, reverse) ==
    IF reverse THEN Reverse(StableSort(l, key)) ELSE StableSort(l, key)

\* sorted(l, key=lambda r: r.<key>, reverse=reverse): a new list; with
\* reverse the list is reversed, sorted ascending and reversed again
sorted(l, key, reverse) ==
    IF reverse
    THEN Reverse(StableSort(Reverse(l), key))
    ELSE StableSort(l, key)

\* max() keeps the last of the items of greatest key
RECURSIVE maxLast(_, _)
maxLast(l, key) ==
    IF Len(l) = 1
    THEN l[1]
    ELSE LET best == maxLast(SubSeq(l, 1, Len(l) - 1), key)
         IN  IF l[Len(l)][key] >= best[key] THEN l[Len(l)] ELSE best

\* max(l, key=lambda r: r.<key>) of a list that is not empty: an item takes
\* the place of the best one so far only when its key is greater
RECURSIVE max(_, _)
max(l, key) ==
    IF Len(l) = 1
    THEN l[1]
    ELSE LET best == max(SubSeq(l, 1, Len(l) - 1), key)
         IN  IF l[Len(l)][key] > best[key] THEN l[Len(l)] ELSE best

\* the results are sorted by max_n and not by count
get_sorted_by_countByMaxN(s, descending) ==
    sorted(s.results, "max_n", descending)

\* lines 78-80
get_sorted_by_count(s, descending) == sorted(s.results, "count", descending)

\* lines 82-84
get_sorted_by_max_n(s, descending) == sorted(s.results, "max_n", descending)

\* lines 86-90
get_fastest(s) ==
    IF s.results = << >> THEN None ELSE Some(max(s.results, "count"))

\* lines 92-96
get_highest_n(s) ==
    IF s.results = << >> THEN None ELSE Some(max(s.results, "max_n"))

\* an entry of `views`: the view called, its argument if it takes one, and
\* what it returned
View(op, arg, returned) == [op |-> op, arg |-> arg, ret |-> returned]

viewFixed == << entry, pc, now, techniques, validate, duration, start_n,
                batch_start, results, start_time, n, count, error_msg,
                first_elapsed, timing_result, calls, techVars >>

\* lines 78-80
GetSortedByCount(descending) ==
    /\ summary # None
    /\ Len(views) < MaxViews
    /\ views' = Append(views,
                    View("get_sorted_by_count", Some(descending),
                         get_sorted_by_count(summary[1], descending)))
    /\ UNCHANGED << summary, viewFixed >>

\* the list of the summary is sorted in place and returned
GetSortedByMaxNInPlace(descending) ==
    /\ summary # None
    /\ Len(views) < MaxViews
    /\ views' = Append(views,
                    View("get_sorted_by_max_n", Some(descending),
                         get_sorted_by_max_n(summary[1], descending)))
    /\ summary' = Some([summary[1] EXCEPT
                            !.results =
                                get_sorted_by_max_n(summary[1], descending)])
    /\ UNCHANGED viewFixed

\* lines 82-84
GetSortedByMaxN(descending) ==
    /\ summary # None
    /\ Len(views) < MaxViews
    /\ views' = Append(views,
                    View("get_sorted_by_max_n", Some(descending),
                         get_sorted_by_max_n(summary[1], descending)))
    /\ UNCHANGED << summary, viewFixed >>

\* lines 86-90
GetFastest ==
    /\ summary # None
    /\ Len(views) < MaxViews
    /\ views' = Append(views,
                    View("get_fastest", None, get_fastest(summary[1])))
    /\ UNCHANGED << summary, viewFixed >>

\* lines 92-96
GetHighestN ==
    /\ summary # None
    /\ Len(views) < MaxViews
    /\ views' = Append(views,
                    View("get_highest_n", None, get_highest_n(summary[1])))
    /\ UNCHANGED << summary, viewFixed >>

\* a summary, as run_all returns it or as a caller builds it, in the hands
\* of its reader
ViewInit ==
    /\ entry = "summary"
    /\ pc = "done"
    /\ \E rs \in ResultLists :
           summary = Some([results |-> rs, total_duration |-> 1])
    /\ views = << >>
    /\ techniques = << >>
    /\ validate = FALSE
    /\ duration = 0
    /\ now = 0
    /\ start_n = 0
    /\ batch_start = 0
    /\ results = << >>
    /\ start_time = 0
    /\ n = 0
    /\ count = 0
    /\ error_msg = None
    /\ first_elapsed = None
    /\ timing_result = None
    /\ calls = << >>
    /\ TechIdle

ViewNext ==
    \/ \E descending \in BOOLEAN : GetSortedByCount(descending)
    \/ \E descending \in BOOLEAN : GetSortedByMaxN(descending)
    \/ GetFastest
    \/ GetHighestN

ViewSpec == ViewInit /\ [][ViewNext]_vars

\* the last call made to a view
LastView == views[Len(views)]

\* item r stands before item q in list l
Before(l, r, q) ==
    \E i, j \in 1..Len(l) : i < j /\ l[i] = r /\ l[j] = q

(***************************************************************************)
(* C13: get_sorted_by_count() and get_sorted_by_max_n(), called with the   *)
(* default descending=True, return the results in non-increasing order of  *)
(* the key, and results of equal key stand in the order they have in       *)
(* summary.results.                                                        *)
(***************************************************************************)
C13_StableDescending ==
    \A v \in 1..Len(views) :
        LET key == IF views[v].op = "get_sorted_by_count"
                   THEN "count" ELSE "max_n"
            l == views[v].ret
        IN  (/\ views[v].op \in {"get_sorted_by_count", "get_sorted_by_max_n"}
             /\ views[v].arg = Some(TRUE)) =>
                /\ \A i \in 1..(Len(l) - 1) : l[i][key] >= l[i + 1][key]
                /\ \A i, j \in 1..Len(l) :
                       (i < j /\ l[i][key] = l[j][key]) =>
                           Before(summary[1].results, l[i], l[j])

\* three results, the first and the last of equal count and the middle one
\* of a greater count, sorted by count: the middle one comes first and the
\* two others keep their order
C13_Witness ==
    /\ views # << >>
    /\ LastView.op = "get_sorted_by_count"
    /\ LastView.arg = Some(TRUE)
    /\ Len(summary[1].results) = 3
    /\ summary[1].results[1].count = 0
    /\ summary[1].results[2].count = 1
    /\ summary[1].results[3].count = 0
    /\ LastView.ret = << summary[1].results[2], summary[1].results[1],
                         summary[1].results[3] >>

\* the position in l of the first item whose key is the greatest
FirstMaximal(l, key) ==
    CHOOSE i \in 1..Len(l) :
        /\ \A j \in 1..Len(l) : l[j][key] <= l[i][key]
        /\ \A j \in 1..(i - 1) : l[j][key] < l[i][key]

(***************************************************************************)
(* C14: get_fastest() returns None when the summary has no result and      *)
(* otherwise the first result, in the order of summary.results, whose      *)
(* count is the greatest; get_highest_n() does the same with max_n.        *)
(***************************************************************************)
C14_FirstMaximal ==
    \A v \in 1..Len(views) :
        LET key == IF views[v].op = "get_fastest" THEN "count" ELSE "max_n"
            rs == summary[1].results
        IN  views[v].op \in {"get_fastest", "get_highest_n"} =>
                IF rs = << >>
                THEN views[v].ret = None
                ELSE views[v].ret = Some(rs[FirstMaximal(rs, key)])

\* the second and the third of three results tie for the greatest count
\* and the second is returned; on an empty summary None is returned
C14_Witness ==
    /\ views # << >>
    /\ LastView.op = "get_fastest"
    /\ Len(summary[1].results) = 3
    /\ summary[1].results[1].count = 0
    /\ summary[1].results[2].count = 1
    /\ summary[1].results[3].count = 1
    /\ LastView.ret = Some(summary[1].results[2])

(***************************************************************************)
(* C15: the views are pure: whatever views are called and in whatever      *)
(* order, summary.results keeps its content and its order, and a view      *)
(* called again with the same argument, get_fastest() and get_highest_n()  *)
(* in particular, returns what it returned before.                         *)
(***************************************************************************)
C15_ViewsArePure ==
    [][ /\ summary' = summary
        /\ \A v \in 1..Len(views) :
               (views[v].op = views'[Len(views')].op
                /\ views[v].arg = views'[Len(views')].arg)
                   => views[v].ret = views'[Len(views')].ret ]_vars

\* get_fastest() is called twice on a summary whose two results tie for the
\* greatest count and returns the first of them both times
C15_Witness ==
    /\ Len(views) = 2
    /\ views[1].op = "get_fastest"
    /\ views[2].op = "get_fastest"
    /\ Len(summary[1].results) = 2
    /\ summary[1].results[1].count = summary[1].results[2].count
    /\ views[1].ret = Some(summary[1].results[1])
    /\ views[2].ret = views[1].ret

\* the number of places of list l that hold x
Occurrences(l, x) == Cardinality({ i \in 1..Len(l) : l[i] = x })

\* list l holds the items of list m, each as many times, in some order
Permutation(l, m) ==
    /\ Len(l) = Len(m)
    /\ \A i \in 1..Len(m) : Occurrences(l, m[i]) = Occurrences(m, m[i])

(***************************************************************************)
(* C30: on a summary that has results, get_fastest() returns the result    *)
(* that stands first in get_sorted_by_count() and get_highest_n() the one  *)
(* that stands first in get_sorted_by_max_n(), also when several results   *)
(* tie for the greatest key; and what a sorted view returns, in either     *)
(* direction, is a permutation of summary.results.                         *)
(***************************************************************************)
C30_ViewsAgree ==
    \A v, w \in 1..Len(views) :
        /\ (/\ summary[1].results # << >>
            /\ views[w].arg = Some(TRUE)
            /\ \/ /\ views[v].op = "get_fastest"
                  /\ views[w].op = "get_sorted_by_count"
               \/ /\ views[v].op = "get_highest_n"
                  /\ views[w].op = "get_sorted_by_max_n")
               => views[v].ret = Some(views[w].ret[1])
        /\ views[w].op \in {"get_sorted_by_count", "get_sorted_by_max_n"}
               => Permutation(views[w].ret, summary[1].results)

\* three results of max_n 0, 1, 1: get_sorted_by_max_n() puts the second
\* first and get_highest_n() returns the second
C30_Witness ==
    /\ Len(views) = 2
    /\ views[1].op = "get_sorted_by_max_n"
    /\ views[1].arg = Some(TRUE)
    /\ views[2].op = "get_highest_n"
    /\ Len(summary[1].results) = 3
    /\ summary[1].results[1].max_n = 0
    /\ summary[1].results[2].max_n = 1
    /\ summary[1].results[3].max_n = 1
    /\ views[2].ret = Some(summary[1].results[2])
    /\ views[1].ret[1] = summary[1].results[2]

(***************************************************************************)
(* validators.py: validate_result and compute_fibonacci_reference, called  *)
(* on their own                                                            *)
(***************************************************************************)
MaxNeg == 2
MaxRef == 45

\* the state of a benchmark, which a validator or a technique called on its
\* own does not touch
benchVars == << entry, pc, now, techniques, validate, duration, start_n,
                batch_start, results, summary, start_time, n, count,
                error_msg, first_elapsed, timing_result, calls, views >>

\* no benchmark is running
BenchIdle ==
    /\ pc = "done"
    /\ now = 0
    /\ techniques = << >>
    /\ validate = FALSE
    /\ duration = 0
    /\ start_n = 0
    /\ batch_start = 0
    /\ results = << >>
    /\ summary = None
    /\ start_time = 0
    /\ n = 0
    /\ count = 0
    /\ error_msg = None
    /\ first_elapsed = None
    /\ timing_result = None
    /\ calls = << >>
    /\ views = << >>

\* what a call did: it returned the value v, or raised an exception
Returns(v) == [exc |-> None, value |-> Some(v)]
Raises(type, msg) == [exc |-> Some([type |-> type, msg |-> msg]),
                      value |-> None]

\* for _ in range(lo, hi): a, b = b, a + b
RECURSIVE ForRange(_, _, _, _)
ForRange(a, b, lo, hi) ==
    IF lo >= hi THEN << a, b >> ELSE ForRange(b, a + b, lo + 1, hi)

\* the loop stops one step early: range(2, n)
compute_fibonacci_referenceShort(k) ==
    IF k < 0
    THEN Raises("ValueError", "n must be non-negative")
    ELSE IF k <= 1
         THEN Returns(k)
         ELSE Returns(ForRange(0, 1, 2, k)[2])

\* validators.py lines 97-118
compute_fibonacci_reference(k) ==
    IF k < 0
    THEN Raises("ValueError", "n must be non-negative")
    ELSE IF k <= 1
         THEN Returns(k)
         ELSE Returns(ForRange(0, 1, 2, k + 1)[2])

\* the indices the validators are handed
RefIndices == (0 - MaxNeg)..MaxRef

\* the values validate_result is handed: those of the table, each of them
\* off by one, and 0
ResultCandidates ==
    UNION { { KNOWN_FIBONACCI[k], KNOWN_FIBONACCI[k] + 1 } :
            k \in DOMAIN KNOWN_FIBONACCI }

\* validators.py lines 26-43
ValidateResult(k, result) ==
    /\ fn = ""
    /\ fn' = "validate_result"
    /\ args' = << k, result >>
    /\ ret' = Returns(validate_result(k, result))
    /\ ran' = {}
    /\ UNCHANGED << cache, NUMPY_AVAILABLE, NUMBA_AVAILABLE,
                    CYTHON_AVAILABLE, benchVars >>

\* validators.py lines 97-118
ComputeReference(k) ==
    /\ fn = ""
    /\ fn' = "compute_fibonacci_reference"
    /\ args' = << k >>
    /\ ret' = compute_fibonacci_reference(k)
    /\ ran' = {}
    /\ UNCHANGED << cache, NUMPY_AVAILABLE, NUMBA_AVAILABLE,
                    CYTHON_AVAILABLE, benchVars >>

\* the caller is done with what the call returned or raised and goes on to
\* its next call (tests/test_techniques.py lines 110-114)
NextCall ==
    /\ fn # ""
    /\ fn' = ""
    /\ args' = << >>
    /\ ret' = << >>
    /\ ran' = {}
    /\ UNCHANGED << cache, NUMPY_AVAILABLE, NUMBA_AVAILABLE,
                    CYTHON_AVAILABLE, benchVars >>

ValidatorInit ==
    /\ entry = "validators"
    /\ BenchIdle
    /\ TechIdle

ValidatorNext ==
    \/ \E k \in RefIndices, result \in ResultCandidates :
           ValidateResult(k, result)
    \/ \E k \in RefIndices : ComputeReference(k)
    \/ NextCall

ValidatorSpec == ValidatorInit /\ [][ValidatorNext]_vars

(***************************************************************************)
(* C16: validate_result(n, result) returns whether result equals           *)
(* KNOWN_FIBONACCI[n] when n is an index of the table, and True for every  *)
(* n that is not, whatever result is.                                      *)
(***************************************************************************)
C16_PassWhenUnknown ==
    fn = "validate_result" =>
        /\ ret.exc = None
        /\ args[1] \in DOMAIN KNOWN_FIBONACCI =>
               (ret.value = Some(TRUE) <=> args[2] = KNOWN_FIBONACCI[args[1]])
        /\ args[1] \in DOMAIN KNOWN_FIBONACCI =>
               (ret.value = Some(FALSE) <=> args[2] # KNOWN_FIBONACCI[args[1]])
        /\ args[1] \notin DOMAIN KNOWN_FIBONACCI => ret.value = Some(TRUE)

\* the wrong value 0 is accepted at index 21, which the table does not hold
C16_Witness ==
    /\ fn = "validate_result"
    /\ args = << 21, 0 >>
    /\ ret.value = Some(TRUE)

(***************************************************************************)
(* C17: compute_fibonacci_reference(n) raises ValueError for n < 0; for    *)
(* n >= 0 it returns F(n), where F(0) = 0, F(1) = 1 and                    *)
(* F(n) = F(n-1) + F(n-2); it agrees with KNOWN_FIBONACCI at every index   *)
(* of the table.                                                           *)
(***************************************************************************)
C17_ReferenceIsFibonacci ==
    fn = "compute_fibonacci_reference" =>
        /\ args[1] < 0 =>
               /\ ret.value = None
               /\ ret.exc # None
               /\ ret.exc[1].type = "ValueError"
        /\ args[1] >= 0 => ret.exc = None /\ ret.value # None
        /\ args[1] \in {0, 1} => ret.value = Some(args[1])
        /\ args[1] >= 2 =>
               ret.value[1] =
                   compute_fibonacci_reference(args[1] - 1).value[1]
                   + compute_fibonacci_reference(args[1] - 2).value[1]
        /\ args[1] \in DOMAIN KNOWN_FIBONACCI =>
               ret.value = Some(KNOWN_FIBONACCI[args[1]])

\* the reference at the greatest index of the table the model holds
C17_Witness ==
    /\ fn = "compute_fibonacci_reference"
    /\ args = << 45 >>
    /\ ret = Returns(1134903170)

(***************************************************************************)
(* techniques/NN_*/fibonacci.py: calculate(n) of the twelve techniques.    *)
(* Each operator gives what the call does: what it returns or raises, the  *)
(* helper functions it enters and the cache of MemoizedRecursion after it. *)
(***************************************************************************)
MaxSmall == 10
MaxErr == 1
ErrDen == 10
Int64MaxIndex == 92
LongLongMaxIndex == 92

Effect(outcome, helpers, c) ==
    [ret |-> outcome, ran |-> helpers, cache |-> c]

\* raise ValueError("n must be non-negative")
NegativeIndex == Raises("ValueError", "n must be non-negative")

\* 01_naive_recursion lines 61-75
RECURSIVE NaiveRecursion_calculate(_)
NaiveRecursion_calculate(k) ==
    IF k < 0
    THEN NegativeIndex
    ELSE IF k <= 1
         THEN Returns(k)
         ELSE Returns(NaiveRecursion_calculate(k - 1).value[1]
                      + NaiveRecursion_calculate(k - 2).value[1])

\* the lru_cache of MemoizedRecursion: a set of << argument, value >>
Cached(c, k) == \E e \in c : e[1] = k
CacheGet(c, k) == (CHOOSE e \in c : e[1] = k)[2]

\* 02_memoized_recursion lines 44, 62-66: self._fib(k), the cached
\* _fib_impl; gives << value, cache afterwards >>
RECURSIVE MemoizedRecursion_fib(_, _)
MemoizedRecursion_fib(c, k) ==
    IF Cached(c, k)
    THEN << CacheGet(c, k), c >>
    ELSE IF k <= 1
         THEN << k, c \cup { << k, k >> } >>
         ELSE LET r1 == MemoizedRecursion_fib(c, k - 1)
                  r2 == MemoizedRecursion_fib(r1[2], k - 2)
              IN  << r1[1] + r2[1],
                     r2[2] \cup { << k, r1[1] + r2[1] >> } >>

\* the guard is missing: a negative index goes to the cached function
MemoizedRecursion_calculateUnguarded(c, k) ==
    LET r == MemoizedRecursion_fib(c, k)
    IN  Effect(Returns(r[1]), {"_fib"}, r[2])

\* 02_memoized_recursion lines 68-80
MemoizedRecursion_calculate(c, k) ==
    IF k < 0
    THEN Effect(NegativeIndex, {}, c)
    ELSE LET r == MemoizedRecursion_fib(c, k)
         IN  Effect(Returns(r[1]), {"_fib"}, r[2])

\* 03_dynamic_programming lines 81-82: dp[i] is dp[i + 1] of the sequence
RECURSIVE DynamicProgramming_fill(_, _, _)
DynamicProgramming_fill(dp, i, k) ==
    IF i > k
    THEN dp
    ELSE DynamicProgramming_fill([dp EXCEPT ![i + 1] = dp[i] + dp[i - 1]],
                                 i + 1, k)

\* 03_dynamic_programming lines 60-84
DynamicProgramming_calculate(k) ==
    IF k < 0
    THEN NegativeIndex
    ELSE IF k <= 1
         THEN Returns(k)
         ELSE LET dp0 == [i \in 1..(k + 1) |-> IF i = 2 THEN 1 ELSE 0]
              IN  Returns(DynamicProgramming_fill(dp0, 2, k)[k + 1])

\* 04_matrix_exponentiation lines 57-81
Matrix_mult(A, B) ==
    << << A[1][1] * B[1][1] + A[1][2] * B[2][1],
          A[1][1] * B[1][2] + A[1][2] * B[2][2] >>,
       << A[2][1] * B[1][1] + A[2][2] * B[2][1],
          A[2][1] * B[1][2] + A[2][2] * B[2][2] >> >>

\* 04_matrix_exponentiation lines 101-107: the while loop of _matrix_pow
RECURSIVE Matrix_powLoop(_, _, _)
Matrix_powLoop(result, M, e) ==
    IF e > 0
    THEN Matrix_powLoop(IF e % 2 = 1 THEN Matrix_mult(result, M) ELSE result,
                        Matrix_mult(M, M), e \div 2)
    ELSE result

\* 04_matrix_exponentiation lines 83-107
Matrix_pow(M, e) == Matrix_powLoop(<< << 1, 0 >>, << 0, 1 >> >>, M, e)

\* the matrix is raised to the power n instead of n - 1
MatrixExponentiation_calculatePowN(k) ==
    IF k < 0
    THEN NegativeIndex
    ELSE IF k <= 1
         THEN Returns(k)
         ELSE Returns(Matrix_pow(<< << 1, 1 >>, << 1, 0 >> >>, k)[1][1])

\* 04_matrix_exponentiation lines 109-132
MatrixExponentiation_calculate(k) ==
    IF k < 0
    THEN NegativeIndex
    ELSE IF k <= 1
         THEN Returns(k)
         ELSE Returns(Matrix_pow(<< << 1, 1 >>, << 1, 0 >> >>, k - 1)[1][1])

\* 05_binets_formula lines 55-57: a number (a + b * sqrt(5)) / 2 is the
\* pair << a, b >>; phi and psi are of that form and so are their powers
phi == << 1, 1 >>
psi == << 1, -1 >>

Q5_mult(x, y) ==
    << (x[1] * y[1] + 5 * x[2] * y[2]) \div 2,
       (x[1] * y[2] + x[2] * y[1]) \div 2 >>

\* 05_binets_formula lines 93-94: x ** e for e >= 1
RECURSIVE Q5_pow(_, _)
Q5_pow(x, e) == IF e = 1 THEN x ELSE Q5_mult(Q5_pow(x, e - 1), x)

\* Decimal.to_integral_value() of num / den, den > 0: ROUND_HALF_EVEN
to_integral_value(num, den) ==
    LET q == num \div den
        r == num % den
    IN  IF 2 * r < den THEN q
        ELSE IF 2 * r > den THEN q + 1
        ELSE IF q % 2 = 0 THEN q ELSE q + 1

\* 05_binets_formula lines 75-99. phi ** n - psi ** n is b * sqrt(5) with
\* b an integer, so that the quotient by sqrt(5) is b; the arithmetic of
\* Decimal at 1000 digits gives that quotient with an error err / ErrDen
BinetsFormula_calculate(k, err) ==
    IF k < 0
    THEN NegativeIndex
    ELSE IF k <= 1
         THEN Returns(k)
         ELSE LET phi_n == Q5_pow(phi, k)
                  psi_n == Q5_pow(psi, k)
                  b == (phi_n[2] - psi_n[2]) \div 2
              IN  Returns(to_integral_value(b * ErrDen + err, ErrDen))

\* 06_generator_based lines 28-45: next(gen); the generator is
\* << started, a, b >>; gives << value yielded, generator afterwards >>
Generator_next(g) ==
    IF g[1]
    THEN << g[3], << TRUE, g[3], g[2] + g[3] >> >>
    ELSE << g[2], << TRUE, g[2], g[3] >> >>

\* 06_generator_based lines 98-99: for _ in range(times): next(gen)
RECURSIVE Generator_advance(_, _)
Generator_advance(g, times) ==
    IF times <= 0
    THEN g
    ELSE Generator_advance(Generator_next(g)[2], times - 1)

\* 06_generator_based lines 80-101
GeneratorBased_calculate(k) ==
    IF k < 0
    THEN NegativeIndex
    ELSE Returns(Generator_next(
                     Generator_advance(<< FALSE, 0, 1 >>, k))[1])

\* np.linalg.matrix_power(M, e), e >= 4: binary decomposition; z and result
\* are None at first
RECURSIVE Numpy_powLoop(_, _, _, _)
Numpy_powLoop(M, z, result, e) ==
    IF e > 0
    THEN LET z2 == IF z = None THEN M ELSE Matrix_mult(z[1], z[1])
             r2 == IF e % 2 = 1
                   THEN IF result = None
                        THEN Some(z2)
                        ELSE Some(Matrix_mult(result[1], z2))
                   ELSE result
         IN  Numpy_powLoop(M, Some(z2), r2, e \div 2)
    ELSE result[1]

\* 07_numpy_vectorized line 86: np.linalg.matrix_power(M, e), e >= 1, on
\* a matrix of Python integers (dtype=object)
Numpy_matrix_power(M, e) ==
    IF e = 1 THEN M
    ELSE IF e = 2 THEN Matrix_mult(M, M)
    ELSE IF e = 3 THEN Matrix_mult(Matrix_mult(M, M), M)
    ELSE Numpy_powLoop(M, None, None, e)

\* what a call did apart from the cache: outcome and code entered
Did(outcome, helpers) == [ret |-> outcome, ran |-> helpers]

\* 07_numpy_vectorized lines 62-88
NumpyVectorized_calculate(k) ==
    IF k < 0
    THEN Did(NegativeIndex, {})
    ELSE IF k <= 1
         THEN Did(Returns(k), {})
         ELSE IF ~NUMPY_AVAILABLE
              THEN Did(Raises("RuntimeError", "NumPy is not installed"), {})
              ELSE Did(Returns(Numpy_matrix_power(
                                   << << 1, 1 >>, << 1, 0 >> >>,
                                   k - 1)[1][1]),
                       {"np.linalg.matrix_power"})

\* 08_numba_jit lines 33-60: _fib_numba, compiled by numba when it is
\* installed (64-bit integers, which hold F(0)..F(92)), plain Python
\* otherwise
NumbaJIT_fib_numba(k) ==
    IF k <= 1 THEN k ELSE ForRange(0, 1, 2, k + 1)[2]

\* 08_numba_jit lines 122-129
NumbaJIT_python_fallback(k) ==
    IF k <= 1 THEN k ELSE ForRange(0, 1, 2, k + 1)[2]

\* 08_numba_jit lines 102-120
NumbaJIT_calculate(k) ==
    IF k < 0
    THEN Did(NegativeIndex, {})
    ELSE IF k > Int64MaxIndex
         THEN Did(Returns(NumbaJIT_python_fallback(k)), {"_python_fallback"})
         ELSE Did(Returns(NumbaJIT_fib_numba(k)),
                  {IF NUMBA_AVAILABLE THEN "_fib_numba (compiled)"
                                      ELSE "_fib_numba (Python)"})

\* 09_cython_optimized line 29: fib_cython of the compiled module
\* fibonacci_impl, an iteration on C long long
fib_cython(k) ==
    IF k <= 1 THEN k ELSE ForRange(0, 1, 2, k + 1)[2]

\* 09_cython_optimized lines 35-42
CythonOptimized_fib_python(k) ==
    IF k <= 1 THEN k ELSE ForRange(0, 1, 2, k + 1)[2]

\* 09_cython_optimized lines 82-105
CythonOptimized_calculate(k) ==
    IF k < 0
    THEN Did(NegativeIndex, {})
    ELSE IF CYTHON_AVAILABLE
         THEN IF k <= LongLongMaxIndex
              THEN Did(Returns(fib_cython(k)), {"fib_cython"})
              ELSE Did(Returns(CythonOptimized_fib_python(k)),
                       {"_fib_python"})
         ELSE Did(Returns(CythonOptimized_fib_python(k)), {"_fib_python"})

\* 10_iterative_space_optimized lines 60-82
IterativeSpaceOptimized_calculate(k) ==
    IF k < 0
    THEN NegativeIndex
    ELSE IF k <= 1
         THEN Returns(k)
         ELSE Returns(ForRange(0, 1, 2, k + 1)[2])

\* 11_fast_doubling lines 74-103: _fast_doubling(k) is << F(k), F(k+1) >>
RECURSIVE FastDoubling_fast_doubling(_)
FastDoubling_fast_doubling(k) ==
    IF k = 0
    THEN << 0, 1 >>
    ELSE LET ab == FastDoubling_fast_doubling(k \div 2)
             c == ab[1] * (2 * ab[2] - ab[1])
             d == ab[1] * ab[1] + ab[2] * ab[2]
         IN  IF k % 2 = 0 THEN << c, d >> ELSE << d, c + d >>

\* 11_fast_doubling lines 59-72
FastDoubling_calculate(k) ==
    IF k < 0
    THEN NegativeIndex
    ELSE Returns(FastDoubling_fast_doubling(k)[1])

\* 12_parallel_processing lines 30-41
ParallelProcessing_fib_single(k) ==
    IF k <= 1 THEN k ELSE ForRange(0, 1, 2, k + 1)[2]

\* 12_parallel_processing lines 88-104
ParallelProcessing_calculate(k) ==
    IF k < 0
    THEN NegativeIndex
    ELSE Returns(ParallelProcessing_fib_single(k))

\* supports_large_n(): False for 01_naive_recursion (lines 77-79) alone
supports_large_n(tech) == tech # "Naive Recursion"

\* tests/test_techniques.py line 130: the indices of test_larger_values
LargeIndices == {20, 30}

\* the indices a technique is called with
TechIndices(tech) ==
    ((0 - MaxNeg)..MaxSmall)
        \cup (IF supports_large_n(tech) THEN LargeIndices ELSE {})

\* the errors of the Decimal arithmetic, in units of 1 / ErrDen
RoundingErrors(tech) ==
    IF tech = "Binet's Formula" THEN (0 - MaxErr)..MaxErr ELSE {0}

\* technique.calculate(k) on the technique of that name, the cache of
\* MemoizedRecursion being c
calculate(tech, c, k, err) ==
    IF tech = "Memoized Recursion"
    THEN MemoizedRecursion_calculate(c, k)
    ELSE LET d ==
             CASE tech = "Naive Recursion" ->
                      Did(NaiveRecursion_calculate(k), {})
               [] tech = "Dynamic Programming" ->
                      Did(DynamicProgramming_calculate(k), {})
               [] tech = "Matrix Exponentiation" ->
                      Did(MatrixExponentiation_calculate(k), {})
               [] tech = "Binet's Formula" ->
                      Did(BinetsFormula_calculate(k, err), {})
               [] tech = "Generator-based" ->
                      Did(GeneratorBased_calculate(k), {})
               [] tech = "NumPy Vectorized" -> NumpyVectorized_calculate(k)
               [] tech = "Numba JIT" -> NumbaJIT_calculate(k)
               [] tech = "Cython Optimized" -> CythonOptimized_calculate(k)
               [] tech = "Iterative Space-Optimized" ->
                      Did(IterativeSpaceOptimized_calculate(k), {})
               [] tech = "Fast Doubling" ->
                      Did(FastDoubling_calculate(k), {})
               [] tech = "Parallel Processing" ->
                      Did(ParallelProcessing_calculate(k), {})
         IN  Effect(d.ret, d.ran, c)

\* tests/test_techniques.py lines 111-112, 135-137, 147-149: a caller
\* calls calculate(k) of a technique
Calculate(tech, k, err) ==
    /\ fn = ""
    /\ LET eff == calculate(tech, cache, k, err)
       IN  /\ ret' = eff.ret
           /\ ran' = eff.ran
           /\ cache' = eff.cache
    /\ fn' = "calculate"
    /\ args' = << tech, k >>
    /\ UNCHANGED << NUMPY_AVAILABLE, NUMBA_AVAILABLE, CYTHON_AVAILABLE,
                    benchVars >>

\* the techniques are loaded; numpy and numba are installed or not, the
\* Cython module is compiled or not
TechInit ==
    /\ entry = "techniques"
    /\ BenchIdle
    /\ fn = ""
    /\ args = << >>
    /\ ret = << >>
    /\ ran = {}
    /\ cache = {}
    /\ NUMPY_AVAILABLE \in BOOLEAN
    /\ NUMBA_AVAILABLE \in BOOLEAN
    /\ CYTHON_AVAILABLE \in BOOLEAN

TechNext ==
    \/ \E i \in 1..Len(TechniqueNames) :
           \E k \in TechIndices(TechniqueNames[i]),
              err \in RoundingErrors(TechniqueNames[i]) :
               Calculate(TechniqueNames[i], k, err)
    \/ NextCall

TechSpec == TechInit /\ [][TechNext]_vars

\* the indices at which a technique is checked against the table
CheckedIndices(tech) ==
    (0..MaxSmall) \cup (IF supports_large_n(tech) THEN LargeIndices ELSE {})

C19_NegativeIndexRefused ==
    [][ (fn' = "calculate" /\ args'[2] < 0) =>
            /\ ret'.value = None
            /\ ret'.exc # None
            /\ ret'.exc[1].type = "ValueError"
            /\ ran' = {}
            /\ cache' = cache ]_vars

\* MemoizedRecursion refuses -1 with its cache filled by an earlier call
C19_Witness ==
    /\ fn = "calculate"
    /\ args = << "Memoized Recursion", -1 >>
    /\ ret = NegativeIndex
    /\ ran = {}
    /\ Cached(cache, 10)

(***************************************************************************)
(* benchmark_runner.py: run_technique_by_name and run_single, and          *)
(* timer.py: run_for_duration, on the techniques of the repository.  What  *)
(* a call into the technique returns or raises is what its code does.      *)
(***************************************************************************)
\* largest duration of the timer in these runs
MaxRunDuration == 22

RunDurations == 0..MaxRunDuration

\* the description, time_complexity and space_complexity properties of the
\* techniques, in the order of their directories
TechniqueDescriptions ==
    << "Classic recursive implementation without optimization",
       "Recursion with LRU cache (top-down dynamic programming)",
       "Bottom-up iterative with array (tabulation)",
       "O(log n) using [[1,1],[1,0]]^n matrix identity",
       "Closed-form formula using golden ratio φ",
       "Python generator with lazy evaluation",
       "NumPy matrix exponentiation with C-level ops",
       "LLVM JIT-compiled iterative (near-C speed)",
       IF CYTHON_AVAILABLE THEN "C-extension via Cython (compiled)"
                           ELSE "C-extension via Cython (fallback)",
       "O(1) space iterative using two variables",
       "O(log n) using F(2n) and F(2n+1) identities",
       "Multiprocessing for batch Fibonacci computation" >>

TimeComplexities ==
    << "O(2^n)", "O(n)", "O(n)", "O(log n)", "O(1)", "O(n)", "O(log n)",
       "O(n)", "O(n)", "O(n)", "O(log n)", "O(n)" >>

SpaceComplexities ==
    << "O(n)", "O(n)", "O(n)", "O(log n)", "O(1)", "O(1)", "O(1)", "O(1)",
       "O(1)", "O(1)", "O(log n)", "O(n)" >>

\* the instance of the class of techniques/<i>_*/fibonacci.py; wrong_at is
\* empty: the technique returns what its calculate() computes
TechniqueInstance(i) ==
    [name |-> TechniqueNames[i],
     description |-> TechniqueDescriptions[i],
     time_complexity |-> TimeComplexities[i],
     space_complexity |-> SpaceComplexities[i],
     wrong_at |-> {}]

\* an entry of `calls` for the technique at position t
CallOf(t, op, arg, out, exc) ==
    [t |-> t, op |-> op, n |-> arg, out |-> out, exc |-> exc]

\* technique_loader.py lines 142-176: _validate_technique_interface calls
\* calculate(0) and calculate(1)
validate_technique_interface(t) ==
    << CallOf(t, "calculate", 0, "ok", None),
       CallOf(t, "calculate", 1, "ok", None) >>

RECURSIVE LoaderCalls(_)
LoaderCalls(t) ==
    IF t = 0
    THEN << >>
    ELSE LoaderCalls(t - 1) \o validate_technique_interface(t)

\* technique_loader.py lines 25-70: a new instance of every technique, in
\* the sorted order of the directories; with validate_interface the
\* interface of each is validated, which calls it
load_all_techniques(validate_interface) ==
    [techniques |-> [i \in 1..Len(TechniqueNames) |-> TechniqueInstance(i)],
     calls |-> IF validate_interface
               THEN LoaderCalls(Len(TechniqueNames))
               ELSE << >>]

\* str.lower() on the strings of the model: the names of the techniques
\* and the names asked for
LowerTable ==
    { << "Naive Recursion", "naive recursion" >>,
      << "Memoized Recursion", "memoized recursion" >>,
      << "Dynamic Programming", "dynamic programming" >>,
      << "Matrix Exponentiation", "matrix exponentiation" >>,
      << "Binet's Formula", "binet's formula" >>,
      << "Generator-based", "generator-based" >>,
      << "NumPy Vectorized", "numpy vectorized" >>,
      << "Numba JIT", "numba jit" >>,
      << "Cython Optimized", "cython optimized" >>,
      << "Iterative Space-Optimized", "iterative space-optimized" >>,
      << "Fast Doubling", "fast doubling" >>,
      << "Parallel Processing", "parallel processing" >>,
      << "FAST DOUBLING", "fast doubling" >>,
      << "MEMOIZED recursion", "memoized recursion" >>,
      << "Numpy vectorized", "numpy vectorized" >>,
      << "Fast-Doubling", "fast-doubling" >> }

lower(s) ==
    IF \E e \in LowerTable : e[1] = s
    THEN (CHOOSE e \in LowerTable : e[1] = s)[2]
    ELSE s

\* the names run_technique_by_name is asked for
NameInputs ==
    { "Fast Doubling", "fast doubling", "FAST DOUBLING",
      "MEMOIZED recursion", "Numpy vectorized",
      "iterative space-optimized", "Fast-Doubling", "fibonacci", "" }

\* the names are compared as they are
get_technique_by_nameCaseSensitive(name) ==
    LET loaded == load_all_techniques(FALSE)
        l == loaded.techniques
        found == { i \in 1..Len(l) : l[i].name = name }
    IN  [techniques |-> l, calls |-> loaded.calls,
         tech |-> IF found = {} THEN None
                  ELSE Some(CHOOSE i \in found : \A j \in found : i <= j)]

\* technique_loader.py lines 179-196: tech is the position of the technique
\* returned in the list loaded, or None
get_technique_by_name(name) ==
    LET loaded == load_all_techniques(FALSE)
        l == loaded.techniques
        found == { i \in 1..Len(l) : lower(l[i].name) = lower(name) }
    IN  [techniques |-> l, calls |-> loaded.calls,
         tech |-> IF found = {} THEN None
                  ELSE Some(CHOOSE i \in found : \A j \in found : i <= j)]

\* a ValueError is taken by the clause of OverflowError
FaultOfBroad(e) ==
    [type |-> e.type,
     isa |-> IF e.type = "ValueError" THEN {"OverflowError"}
             ELSE {e.type} \cap {"RecursionError", "MemoryError",
                                 "OverflowError"},
     msg |-> e.msg]

\* the class of an exception as the except clauses of run_for_duration see
\* it (timer.py lines 93-100)
FaultOf(e) ==
    [type |-> e.type,
     isa |-> {e.type} \cap {"RecursionError", "MemoryError", "OverflowError"},
     msg |-> e.msg]

\* the setup of MemoizedRecursion leaves the cache as it finds it
setupKeepsCache(tech, c) ==
    CASE tech = "NumPy Vectorized" ->
             IF ~NUMPY_AVAILABLE
             THEN Effect(Raises("RuntimeError",
                                "NumPy is required for this technique"),
                         {}, c)
             ELSE Effect(Returns(None), {}, c)
      [] tech = "Numba JIT" ->
             Effect(Returns(None),
                    IF NUMBA_AVAILABLE THEN {"_fib_numba (compiled)"} ELSE {},
                    c)
      [] OTHER -> Effect(Returns(None), {}, c)

\* technique.setup() on the technique of that name, the cache of
\* MemoizedRecursion being c: base_technique.py lines 111-118 unless the
\* class has its own (02 lines 82-86, 07 lines 93-96, 08 lines 131-136)
setup(tech, c) ==
    CASE tech = "Memoized Recursion" -> Effect(Returns(None), {}, {})
      [] tech = "NumPy Vectorized" ->
             IF ~NUMPY_AVAILABLE
             THEN Effect(Raises("RuntimeError",
                                "NumPy is required for this technique"),
                         {}, c)
             ELSE Effect(Returns(None), {}, c)
      [] tech = "Numba JIT" ->
             Effect(Returns(None),
                    IF NUMBA_AVAILABLE THEN {"_fib_numba (compiled)"} ELSE {},
                    c)
      [] OTHER -> Effect(Returns(None), {}, c)

\* technique.teardown(): base_technique.py lines 120-127 unless the class
\* has its own (02 lines 88-90)
teardown(tech, c) ==
    IF tech = "Memoized Recursion"
    THEN Effect(Returns(None), {}, {})
    ELSE Effect(Returns(None), {}, c)

\* technique.calculate(k) on an instance: what calculate() of its class
\* computes, off by one at the indices of wrong_at
TechniqueCall(tech, c, k) ==
    LET eff == calculate(tech.name, c, k, 0)
    IN  IF k \in tech.wrong_at /\ eff.ret.exc = None
        THEN Effect(Returns(eff.ret.value[1] + 1), eff.ran, eff.cache)
        ELSE eff

\* the sets of indices at which an instance handed to run_single is wrong
WrongIndexSets == { {}, {0}, {3}, {20}, {21}, {21, 22} }

\* techniques/10_iterative_space_optimized with a defect at some indices
DefectiveTechniques ==
    { [TechniqueInstance(10) EXCEPT !.wrong_at = w] : w \in WrongIndexSets }

\* the position in `techniques` of the technique being run
Running ==
    IF fn = "run_technique_by_name"
    THEN get_technique_by_name(args[1]).tech[1]
    ELSE 1

\* what run_technique_by_name returns is Optional[BenchmarkResult]
ReturnOf(r) ==
    IF fn = "run_technique_by_name" THEN Returns(Some(r)) ELSE Returns(r)

\* what these runs never change
singleFixed == << entry, validate, duration, batch_start, results, summary,
                  views, fn, args, ran, NUMPY_AVAILABLE, NUMBA_AVAILABLE,
                  CYTHON_AVAILABLE >>

\* benchmark_runner.py lines 241-245: the technique is looked up; None is
\* returned when there is none of that name
RunTechniqueByName ==
    /\ pc = "lookup"
    /\ LET got == get_technique_by_name(args[1])
       IN  /\ techniques' = got.techniques
           /\ calls' = calls \o got.calls
           /\ IF got.tech = None
              THEN pc' = "done" /\ ret' = Returns(None)
              ELSE pc' = "setup" /\ UNCHANGED ret
    /\ UNCHANGED << singleFixed, now, start_n, timerVars, timing_result,
                    cache >>

\* benchmark_runner.py lines 190-212: technique.setup() is called; when it
\* raises the result is returned at once, otherwise run_for_duration is
\* called with start_n = 0
RunSingleSetup ==
    /\ pc = "setup"
    /\ LET tech == techniques[Running]
           eff == setup(tech.name, cache)
       IN  /\ cache' = eff.cache
           /\ IF eff.ret.exc = None
              THEN /\ calls' = Append(calls,
                                   CallOf(Running, "setup", 0, "ok", None))
                   /\ pc' = "timer"
                   /\ UNCHANGED ret
              ELSE /\ calls' = Append(calls,
                                   CallOf(Running, "setup", 0, "fault",
                                          Some(FaultOf(eff.ret.exc[1]))))
                   /\ pc' = "done"
                   /\ ret' = ReturnOf(SetupFailedResult(tech,
                                                        eff.ret.exc[1].msg))
    /\ start_n' = 0
    /\ UNCHANGED << singleFixed, now, techniques, timerVars, timing_result >>

\* the value is validated against the reference implementation and not
\* against the table
TimedCallAgainstReference(dt) ==
    /\ pc = "while"
    /\ DeadlineNotReached(now, start_time, duration)
    /\ NoteFirstCheck
    /\ LET eff == TechniqueCall(techniques[Running], cache, n)
       IN  /\ cache' = eff.cache
           /\ IF eff.ret.exc # None
              THEN /\ error_msg' =
                          Some(ClassifyFault(FaultOf(eff.ret.exc[1]), n))
                   /\ pc' = "exit"
                   /\ calls' = Append(calls,
                                   CallOf(Running, "calculate", n, "fault",
                                          Some(FaultOf(eff.ret.exc[1]))))
                   /\ UNCHANGED << n, count >>
              ELSE IF validate
                      /\ eff.ret.value[1]
                             # compute_fibonacci_reference(n).value[1]
              THEN /\ error_msg' = Some(ValidationTag(n))
                   /\ pc' = "exit"
                   /\ calls' = Append(calls,
                                   CallOf(Running, "calculate", n,
                                          "rejected", None))
                   /\ UNCHANGED << n, count >>
              ELSE /\ count' = count + 1
                   /\ n' = n + 1
                   /\ calls' = Append(calls,
                                   CallOf(Running, "calculate", n, "ok",
                                          None))
                   /\ UNCHANGED << pc, error_msg >>
    /\ now' = now + dt
    /\ UNCHANGED << singleFixed, techniques, start_n, start_time,
                    timing_result, ret >>

\* timer.py lines 81-100: the deadline is not reached and func(n), the
\* calculate of the technique, is called
TimedCall(dt) ==
    /\ pc = "while"
    /\ DeadlineNotReached(now, start_time, duration)
    /\ NoteFirstCheck
    /\ LET eff == TechniqueCall(techniques[Running], cache, n)
       IN  /\ cache' = eff.cache
           /\ IF eff.ret.exc # None
              THEN /\ error_msg' =
                          Some(ClassifyFault(FaultOf(eff.ret.exc[1]), n))
                   /\ pc' = "exit"
                   /\ calls' = Append(calls,
                                   CallOf(Running, "calculate", n, "fault",
                                          Some(FaultOf(eff.ret.exc[1]))))
                   /\ UNCHANGED << n, count >>
              ELSE IF validate /\ ~validate_result(n, eff.ret.value[1])
              THEN /\ error_msg' = Some(ValidationTag(n))
                   /\ pc' = "exit"
                   /\ calls' = Append(calls,
                                   CallOf(Running, "calculate", n,
                                          "rejected", None))
                   /\ UNCHANGED << n, count >>
              ELSE /\ count' = count + 1
                   /\ n' = n + 1
                   /\ calls' = Append(calls,
                                   CallOf(Running, "calculate", n, "ok",
                                          None))
                   /\ UNCHANGED << pc, error_msg >>
    /\ now' = now + dt
    /\ UNCHANGED << singleFixed, techniques, start_n, start_time,
                    timing_result, ret >>

\* timer.py lines 102-110: run_for_duration returns, to run_single or to
\* the caller
TimedReturn ==
    /\ pc = "exit"
    /\ timing_result' =
           Some(TimingResult(count, n, now - start_time, error_msg))
    /\ IF fn = "run_for_duration"
       THEN /\ pc' = "done"
            /\ ret' = Returns(TimingResult(count, n, now - start_time,
                                           error_msg))
       ELSE pc' = "teardown" /\ UNCHANGED ret
    /\ start_time' = 0 /\ n' = 0 /\ count' = 0 /\ error_msg' = None
    /\ UNCHANGED << singleFixed, now, techniques, start_n, first_elapsed,
                    calls, cache >>

\* benchmark_runner.py lines 214-229: teardown() is called and the result
\* is returned
RunSingleTeardown ==
    /\ pc = "teardown"
    /\ LET tech == techniques[Running]
           eff == teardown(tech.name, cache)
       IN  /\ cache' = eff.cache
           /\ calls' = Append(calls,
                           CallOf(Running, "teardown", 0, "ok", None))
           /\ ret' = ReturnOf(BenchmarkResult(tech, timing_result[1]))
    /\ pc' = "done"
    /\ first_elapsed' = None
    /\ UNCHANGED << singleFixed, now, techniques, start_n, start_time, n,
                    count, error_msg, timing_result >>

RECURSIVE GCD(_, _)
GCD(a, b) == IF b = 0 THEN a ELSE GCD(b, a % b)

\* a / b for integers a >= 0 and b # 0, as a fraction << numerator,
\* denominator >> in lowest terms; 0.0 is << 0, 1 >>
Quotient(a, b) ==
    LET g == GCD(a, IF b < 0 THEN 0 - b ELSE b)
    IN  << a \div g, b \div g >>

\* the quotient is taken whatever the duration is
rateUnguarded(r) ==
    IF r.duration = 0
    THEN Raises("ZeroDivisionError", "division by zero")
    ELSE Returns(Quotient(r.count, r.duration))

\* benchmark_runner.py lines 58-61: the rate property of a BenchmarkResult
rate(r) ==
    IF r.duration > 0
    THEN Returns(Quotient(r.count, r.duration))
    ELSE Returns(<< 0, 1 >>)

\* the results a caller may construct: any count and any duration
ConstructedResults ==
    { BenchmarkResult(TechniqueInstance(1),
                      [count |-> c, max_n |-> MaxN(c, c),
                       actual_duration |-> d, error |-> None]) :
          c \in Values, d \in Durations }

\* the BenchmarkResult the caller holds, if any
HeldResult ==
    IF pc # "done" \/ fn = "run_for_duration" THEN None
    ELSE IF fn = "run_technique_by_name" THEN ret.value[1]
    ELSE Some(ret.value[1])

\* the caller reads result.rate
ReadRate ==
    /\ HeldResult # None
    /\ views = << >>
    /\ views' = << View("rate", None, rate(HeldResult[1])) >>
    /\ UNCHANGED << entry, pc, now, techniques, validate, duration, start_n,
                    batch_start, results, summary, timerVars, timing_result,
                    calls, techVars >>

\* one call of run_technique_by_name(name), of run_single(technique) or of
\* run_for_duration(technique.calculate, start_n) at a negative start_n, or
\* a BenchmarkResult in the hands of a caller; a package is installed or
\* not where the technique run reads the flag
\* the caches of a MemoizedRecursion that has been called before it is handed
\* to run_single: 02_memoized_recursion lines 44, 68-80
MaxUsed == 3
UsedCaches ==
    {{}} \cup { MemoizedRecursion_fib({}, k)[2] : k \in 0..MaxUsed }

SingleInit ==
    /\ entry = "single"
    /\ validate \in BOOLEAN
    /\ duration \in RunDurations
    /\ \/ /\ fn = "run_technique_by_name"
          /\ \E name \in NameInputs : args = << name >>
          /\ NUMPY_AVAILABLE \in BOOLEAN
          /\ NUMBA_AVAILABLE = TRUE
          /\ CYTHON_AVAILABLE = TRUE
          /\ techniques = << >>
          /\ start_n = 0
          /\ pc = "lookup"
          /\ ret = << >>
          /\ cache = {}
       \/ /\ fn = "run_single"
          /\ NUMPY_AVAILABLE = TRUE
          /\ NUMBA_AVAILABLE = TRUE
          /\ CYTHON_AVAILABLE = TRUE
          /\ \E tech \in DefectiveTechniques : techniques = << tech >>
          /\ args = << >>
          /\ start_n = 0
          /\ pc = "setup"
          /\ ret = << >>
          /\ cache = {}
       \/ /\ fn = "run_single"
          /\ NUMPY_AVAILABLE = TRUE
          /\ NUMBA_AVAILABLE = TRUE
          /\ CYTHON_AVAILABLE = TRUE
          /\ techniques = << TechniqueInstance(2) >>
          /\ args = << >>
          /\ start_n = 0
          /\ pc = "setup"
          /\ ret = << >>
          /\ cache \in UsedCaches
       \/ /\ fn = "run_for_duration"
          /\ NUMPY_AVAILABLE \in BOOLEAN
          /\ NUMBA_AVAILABLE \in BOOLEAN
          /\ CYTHON_AVAILABLE \in BOOLEAN
          /\ \E i \in 1..Len(TechniqueNames) :
                 techniques = << TechniqueInstance(i) >>
          /\ args = << >>
          /\ start_n \in (0 - MaxNeg)..(-1)
          /\ pc = "timer"
          /\ ret = << >>
          /\ cache = {}
       \/ /\ fn = "BenchmarkResult"
          /\ NUMPY_AVAILABLE = TRUE
          /\ NUMBA_AVAILABLE = TRUE
          /\ CYTHON_AVAILABLE = TRUE
          /\ techniques = << >>
          /\ args = << >>
          /\ start_n = 0
          /\ pc = "done"
          /\ \E r \in ConstructedResults : ret = Returns(r)
          /\ cache = {}
    /\ now = 0
    /\ batch_start = 0
    /\ results = << >>
    /\ summary = None
    /\ start_time = 0
    /\ n = 0
    /\ count = 0
    /\ error_msg = None
    /\ first_elapsed = None
    /\ timing_result = None
    /\ calls = << >>
    /\ views = << >>
    /\ ran = {}

SingleNext ==
    \/ RunTechniqueByName
    \/ RunSingleSetup
    \/ TimerStart
    \/ \E dt \in CallSteps : TimedCall(dt)
    \/ Deadline
    \/ TimedReturn
    \/ RunSingleTeardown
    \/ ReadRate

SingleSpec == SingleInit /\ [][SingleNext]_vars

\* the strings of the model that differ by the case of their letters only
CaseClasses ==
    { { "Fast Doubling", "fast doubling", "FAST DOUBLING" },
      { "Memoized Recursion", "MEMOIZED recursion" },
      { "NumPy Vectorized", "Numpy vectorized" },
      { "Iterative Space-Optimized", "iterative space-optimized" } }

EqualIgnoringCase(a, b) ==
    a = b \/ \E cl \in CaseClasses : a \in cl /\ b \in cl

\* the discovered techniques whose name is the name asked for, ignoring case
Matching(name) ==
    { i \in 1..Len(TechniqueNames) :
          EqualIgnoringCase(TechniqueNames[i], name) }

(***************************************************************************)
(* C21: run_technique_by_name(name) returns None, and calls no setup,      *)
(* calculate or teardown of any technique, when no discovered technique    *)
(* has that name ignoring case; otherwise it calls the first discovered    *)
(* technique of that name only and returns what run_single returns for it: *)
(* the setup-failure result when its setup() raised, and otherwise the     *)
(* result bearing its properties and the count, max_n, duration and error  *)
(* of its timed run.                                                       *)
(***************************************************************************)
C21_RunTechniqueByName ==
    fn = "run_technique_by_name" =>
        LET found == Matching(args[1])
            first == CHOOSE i \in found : \A j \in found : i <= j
            tech == TechniqueInstance(first)
        IN  /\ found = {} =>
                 /\ calls = << >>
                 /\ pc \in {"lookup", "done"}
                 /\ pc = "done" => ret = Returns(None)
            /\ found # {} =>
                 /\ \A i \in 1..Len(calls) : calls[i].t = first
                 /\ pc = "done" =>
                      /\ calls # << >>
                      /\ calls[1].op = "setup"
                      /\ ret.exc = None
                      /\ ret.value[1] # None
                      /\ ret.value[1][1] =
                             IF calls[1].out = "fault"
                             THEN SetupFailedResult(tech,
                                                    calls[1].exc[1].msg)
                             ELSE BenchmarkResult(tech, timing_result[1])
                      /\ calls[1].out = "ok" =>
                             /\ calls[Len(calls)].op = "teardown"
                             /\ timing_result[1].count =
                                    Len(SelectSeq(calls, LAMBDA c :
                                            c.op = "calculate"
                                            /\ c.out = "ok"))

\* the name asked for is in capitals: the technique eleventh in the order of
\* the loader was run and its result returned
C21_Witness ==
    /\ fn = "run_technique_by_name"
    /\ args = << "FAST DOUBLING" >>
    /\ pc = "done"
    /\ ret.value[1] # None
    /\ ret.value[1][1].technique_name = "Fast Doubling"
    /\ ret.value[1][1].count >= 2
    /\ ret.value[1][1].error = None
    /\ calls[1].t = 11

(***************************************************************************)
(* C22: result.rate is count / duration when duration > 0 and 0 when       *)
(* duration <= 0; reading it never raises, and the result of a technique   *)
(* whose setup() raised, of duration 0, has the rate 0.                    *)
(***************************************************************************)
C22_Rate ==
    (views # << >> /\ views[1].op = "rate") =>
        LET r == HeldResult[1]
            got == views[1].ret
        IN  /\ got.exc = None
            /\ r.duration > 0 =>
                   /\ got.value[1][2] > 0
                   /\ got.value[1][1] * r.duration = r.count * got.value[1][2]
            /\ r.duration <= 0 => got.value[1] = << 0, 1 >>
            /\ (calls # << >> /\ calls[1].out = "fault") =>
                   r.duration = 0 /\ got.value[1] = << 0, 1 >>

\* the rate of the result of NumPy Vectorized, whose setup() raised, is read
C22_Witness ==
    /\ views # << >>
    /\ views[1].op = "rate"
    /\ fn = "run_technique_by_name"
    /\ calls # << >>
    /\ calls[1].op = "setup"
    /\ calls[1].out = "fault"
    /\ HeldResult[1].duration = 0
    /\ views[1].ret = Returns(<< 0, 1 >>)

(***************************************************************************)
(* C23: in a timed run of a technique started at a negative start_n the    *)
(* first call raises ValueError and is the only call; the error returned   *)
(* is that of the generic clause, "ValueError at n=<start_n>: n must be    *)
(* non-negative", not one of the tags of RecursionError, MemoryError or    *)
(* OverflowError, and count is 0.                                          *)
(***************************************************************************)
C23_NegativeStart ==
    (fn = "run_for_duration" /\ start_n < 0) =>
        /\ Len(calls) <= 1
        /\ \A i \in 1..Len(calls) :
               /\ calls[i].op = "calculate"
               /\ calls[i].n = start_n
               /\ calls[i].out = "fault"
               /\ calls[i].exc[1].type = "ValueError"
        /\ (pc = "done" /\ calls # << >>) =>
               /\ TR.count = 0
               /\ TR.max_n = 0
               /\ TR.error = Some("ValueError at n=" \o ToString(start_n)
                                  \o ": " \o calls[1].exc[1].msg)
               /\ calls[1].exc[1].msg = "n must be non-negative"
               /\ TR.error \notin
                      { Some(kind \o " at n=" \o ToString(start_n)) :
                          kind \in {"RecursionError", "MemoryError",
                                    "OverflowError"} }

\* NumPy Vectorized without numpy called at -2: the index is refused first
C23_Witness ==
    /\ fn = "run_for_duration"
    /\ start_n = -2
    /\ techniques[1].name = "NumPy Vectorized"
    /\ ~NUMPY_AVAILABLE
    /\ pc = "done"
    /\ Len(calls) = 1
    /\ TR.count = 0
    /\ TR.error = Some("ValueError at n=-2: n must be non-negative")

(***************************************************************************)
(* validators.py: validate_technique(technique, test_range).  The          *)
(* technique is an opaque callable: what calculate(n) returns or raises is *)
(* the environment's choice.                                               *)
(***************************************************************************)
\* test_range ranges over -1 .. MaxRange
MaxRange == 26
\* the greatest index of the table of utils/constants.py
MaxKnownIndex == 500
\* validators.py line 75: a RecursionError up to this index is too early
TooEarlyIndex == 10

Min(a, b) == IF a < b THEN a ELSE b

\* line 62: the end of the range of the loop
RangeEnd(test_range) == Min(test_range, MaxKnownIndex + 1)

\* line 71
MismatchMessage(k, expected, result) ==
    "F(" \o ToString(k) \o "): expected " \o ToString(expected)
        \o ", got " \o ToString(result)

\* line 76
TooEarlyMessage(k) == "RecursionError at n=" \o ToString(k) \o " (too early)"

\* line 79
ExceptionMessage(k, f) ==
    "Exception at n=" \o ToString(k) \o ": " \o f.type \o ": " \o f.msg

checkFixed == << entry, now, techniques, validate, duration, start_n,
                 batch_start, results, summary, start_time, count, error_msg,
                 first_elapsed, timing_result, views, fn, args, ran, cache,
                 NUMPY_AVAILABLE, NUMBA_AVAILABLE, CYTHON_AVAILABLE >>

\* lines 62-64: the index is not in the table, the loop goes on
ValidateTechniqueSkip ==
    /\ pc = "check"
    /\ n < RangeEnd(args[1])
    /\ n \notin DOMAIN KNOWN_FIBONACCI
    /\ n' = n + 1
    /\ UNCHANGED << checkFixed, pc, calls, ret >>

\* lines 66-71: calculate(n) returns v
ValidateTechniqueReturns(v) ==
    /\ pc = "check"
    /\ n < RangeEnd(args[1])
    /\ n \in DOMAIN KNOWN_FIBONACCI
    /\ IF v # KNOWN_FIBONACCI[n]
       THEN /\ calls' = Append(calls,
                            CallOf(1, "calculate", n, "rejected", None)
                                @@ [value |-> v])
            /\ ret' = Returns(<< FALSE,
                         Some(MismatchMessage(n, KNOWN_FIBONACCI[n], v)) >>)
            /\ pc' = "done"
            /\ UNCHANGED n
       ELSE /\ calls' = Append(calls,
                            CallOf(1, "calculate", n, "ok", None)
                                @@ [value |-> v])
            /\ n' = n + 1
            /\ UNCHANGED << pc, ret >>
    /\ UNCHANGED checkFixed

\* a RecursionError at index 10 itself is not too early
ValidateTechniqueFaultsBelow(f) ==
    /\ pc = "check"
    /\ n < RangeEnd(args[1])
    /\ n \in DOMAIN KNOWN_FIBONACCI
    /\ calls' = Append(calls, CallOf(1, "calculate", n, "fault", Some(f)))
    /\ ret' = IF "RecursionError" \in f.isa
              THEN IF n < TooEarlyIndex
                   THEN Returns(<< FALSE, Some(TooEarlyMessage(n)) >>)
                   ELSE Returns(<< TRUE, None >>)
              ELSE Returns(<< FALSE, Some(ExceptionMessage(n, f)) >>)
    /\ pc' = "done"
    /\ UNCHANGED << checkFixed, n >>

\* lines 66-67, 73-81: calculate(n) raises f; a RecursionError beyond
\* index 10 leaves the loop and True is returned
ValidateTechniqueFaults(f) ==
    /\ pc = "check"
    /\ n < RangeEnd(args[1])
    /\ n \in DOMAIN KNOWN_FIBONACCI
    /\ calls' = Append(calls, CallOf(1, "calculate", n, "fault", Some(f)))
    /\ ret' = IF "RecursionError" \in f.isa
              THEN IF n <= TooEarlyIndex
                   THEN Returns(<< FALSE, Some(TooEarlyMessage(n)) >>)
                   ELSE Returns(<< TRUE, None >>)
              ELSE Returns(<< FALSE, Some(ExceptionMessage(n, f)) >>)
    /\ pc' = "done"
    /\ UNCHANGED << checkFixed, n >>

\* lines 62, 81: the range is exhausted
ValidateTechniqueEnd ==
    /\ pc = "check"
    /\ n >= RangeEnd(args[1])
    /\ ret' = Returns(<< TRUE, None >>)
    /\ pc' = "done"
    /\ UNCHANGED << checkFixed, n, calls >>

\* validate_technique(technique, test_range) is called
CheckInit ==
    /\ entry = "validate_technique"
    /\ fn = "validate_technique"
    /\ \E test_range \in (-1)..MaxRange : args = << test_range >>
    /\ pc = "check"
    /\ n = 0
    /\ ret = << >>
    /\ ran = {}
    /\ cache = {}
    /\ NUMPY_AVAILABLE = TRUE
    /\ NUMBA_AVAILABLE = TRUE
    /\ CYTHON_AVAILABLE = TRUE
    /\ now = 0
    /\ techniques = << >>
    /\ validate = FALSE
    /\ duration = 0
    /\ start_n = 0
    /\ batch_start = 0
    /\ results = << >>
    /\ summary = None
    /\ start_time = 0
    /\ count = 0
    /\ error_msg = None
    /\ first_elapsed = None
    /\ timing_result = None
    /\ calls = << >>
    /\ views = << >>

CheckNext ==
    \/ ValidateTechniqueSkip
    \/ \E v \in ResultCandidates : ValidateTechniqueReturns(v)
    \/ \E f \in Faults : ValidateTechniqueFaults(f)
    \/ ValidateTechniqueEnd

CheckSpec == CheckInit /\ [][CheckNext]_vars

\* the tabulated indices below test_range, and those of them below k
Examined(test_range) == { k \in DOMAIN KNOWN_FIBONACCI : k < test_range }
ExaminedBelow(test_range, k) == { j \in Examined(test_range) : j < k }

(***************************************************************************)
(* C25: validate_technique(technique, test_range) calls calculate(n) at    *)
(* the tabulated indices n < test_range, each once and in increasing       *)
(* order, and stops at the first call that does not return the value of    *)
(* the table.  It returns (True, None) when every call returned the value  *)
(* of the table, and when a RecursionError was raised at an index above    *)
(* 10; it returns False and a message naming n when the call at n returned *)
(* another value, raised RecursionError with n <= 10 or raised any other   *)
(* exception.                                                              *)
(***************************************************************************)
C25_ValidateTechnique ==
    fn = "validate_technique" =>
        LET test_range == args[1]
            last == calls[Len(calls)]
        IN  /\ \A i \in 1..Len(calls) :
                   /\ calls[i].op = "calculate"
                   /\ calls[i].n \in Examined(test_range)
                   /\ Cardinality(ExaminedBelow(test_range, calls[i].n))
                          = i - 1
                   /\ i < Len(calls) =>
                          /\ calls[i].out = "ok"
                          /\ calls[i].value = KNOWN_FIBONACCI[calls[i].n]
            /\ (pc = "done" /\ (calls = << >> \/ last.out = "ok")) =>
                   /\ Len(calls) = Cardinality(Examined(test_range))
                   /\ ret = Returns(<< TRUE, None >>)
            /\ (pc = "done" /\ calls # << >> /\ last.out = "rejected") =>
                   /\ last.value # KNOWN_FIBONACCI[last.n]
                   /\ ret = Returns(<< FALSE,
                                Some("F(" \o ToString(last.n)
                                     \o "): expected "
                                     \o ToString(KNOWN_FIBONACCI[last.n])
                                     \o ", got " \o ToString(last.value)) >>)
            /\ (pc = "done" /\ calls # << >> /\ last.out = "fault") =>
                   IF "RecursionError" \in last.exc[1].isa
                   THEN IF last.n <= 10
                        THEN ret = Returns(<< FALSE,
                                       Some("RecursionError at n="
                                            \o ToString(last.n)
                                            \o " (too early)") >>)
                        ELSE ret = Returns(<< TRUE, None >>)
                   ELSE ret = Returns(<< FALSE,
                                  Some("Exception at n=" \o ToString(last.n)
                                       \o ": " \o last.exc[1].type \o ": "
                                       \o last.exc[1].msg) >>)

\* with test_range 26 the technique is right up to index 20 and raises
\* RecursionError at 25, the next index of the table: True is returned
C25_Witness ==
    /\ fn = "validate_technique"
    /\ args = << 26 >>
    /\ pc = "done"
    /\ Len(calls) = 22
    /\ calls[21].n = 20
    /\ calls[22].n = 25
    /\ calls[22].out = "fault"
    /\ "RecursionError" \in calls[22].exc[1].isa
    /\ ret = Returns(<< TRUE, None >>)

\* the least index of the table at which the technique handed to
\* run_single is wrong, if there is one
WrongTabulated == techniques[1].wrong_at \cap DOMAIN KNOWN_FIBONACCI
FirstWrongTabulated ==
    CHOOSE k \in WrongTabulated : \A j \in WrongTabulated : k <= j

(***************************************************************************)
(* C26: with validation enabled, the timed run of a technique that is      *)
(* wrong at a tabulated index k, once it has called that index, ends with  *)
(* count = k and the error "Validation failed at n=k"; the run of a        *)
(* technique that is wrong at indices outside the table only (21, 22)      *)
(* ends at the deadline with no error, and its wrong calls are counted.    *)
(***************************************************************************)
C26_SilentPass ==
    (fn = "run_single" /\ validate /\ pc = "done") =>
        LET r == ret.value[1]
            cs == CalcCalls(calls, 1)
        IN  /\ (WrongTabulated # {}
                /\ \E i \in 1..Len(cs) : cs[i].n = FirstWrongTabulated) =>
                   /\ r.count = FirstWrongTabulated
                   /\ r.error = Some("Validation failed at n="
                                     \o ToString(FirstWrongTabulated))
            /\ WrongTabulated = {} =>
                   /\ r.error = None
                   /\ r.duration >= duration
                   /\ r.count = Len(cs)
                   /\ \A i \in 1..Len(cs) :
                          cs[i].n = i - 1 /\ cs[i].out = "ok"

\* the technique is wrong at 21 and at 22: both calls were made and the run
\* counts them, 23 calls in all, with no error
C26_Witness ==
    /\ fn = "run_single"
    /\ validate
    /\ pc = "done"
    /\ techniques[1].wrong_at = {21, 22}
    /\ ret.value[1].count = 23
    /\ ret.value[1].max_n = 22
    /\ ret.value[1].error = None

(***************************************************************************)
(* MemoizedRecursion in the timed loop                                     *)
(***************************************************************************)

\* 02_memoized_recursion lines 62-66: the number of frames of _fib_impl
\* that are open at once, at most, while self._fib(k) runs on the cache c
RECURSIVE MemoizedRecursion_fib_depth(_, _)
MemoizedRecursion_fib_depth(c, k) ==
    IF Cached(c, k)
    THEN 0
    ELSE IF k <= 1
         THEN 1
         ELSE LET d1 == MemoizedRecursion_fib_depth(c, k - 1)
                  d2 == MemoizedRecursion_fib_depth(
                            MemoizedRecursion_fib(c, k - 1)[2], k - 2)
              IN  1 + (IF d1 >= d2 THEN d1 ELSE d2)

\* the technique a run of run_single or run_for_duration is on is
\* MemoizedRecursion
RunsMemoized ==
    /\ pc \in {"setup", "timer", "while", "exit", "teardown"}
    /\ techniques[Running].name = "Memoized Recursion"

\* the cache that holds F(0), ..., F(k) and nothing else
CacheUpTo(k) ==
    { << i, compute_fibonacci_reference(i).value[1] >> : i \in 0..k }

(***************************************************************************)
(* C28: for MemoizedRecursion, setup() leaves the cache empty, also on an  *)
(* instance that was used before; in a run from index 0 every call         *)
(* calculate(k) of the timed loop leaves the cache holding exactly the     *)
(* indices 0..k, adds exactly one entry (one miss), opens one frame of     *)
(* _fib_impl at a time and no more, and does not fail.                     *)
(***************************************************************************)
C28_MemoizedCache ==
    [][ RunsMemoized =>
          /\ pc = "setup" => cache' = {}
          /\ (pc = "while" /\ start_n = 0 /\ calls' # calls) =>
                 /\ cache' = CacheUpTo(n)
                 /\ Cardinality(cache') = Cardinality(cache) + 1
                 /\ MemoizedRecursion_fib_depth(cache, n) = 1
                 /\ error_msg' = None
                 /\ n' = n + 1
      ]_vars

\* run_single on a MemoizedRecursion: five calls after setup, the cache
\* holds the indices 0..4
C28_Witness ==
    /\ fn = "run_single"
    /\ pc = "while"
    /\ techniques[1].name = "Memoized Recursion"
    /\ Len(calls) = 6
    /\ calls[1].op = "setup"
    /\ calls[6].n = 4
    /\ cache = CacheUpTo(4)
    /\ Cardinality(cache) = 5

(***************************************************************************)
(* 11_fast_doubling: calculate_iterative, one iteration of its loop at a   *)
(* time.  `args` is << n >> and `calls` holds the loop variable i and the  *)
(* pair (a, b) after each iteration.                                       *)
(***************************************************************************)
MaxIter == 44

\* int.bit_length() of a non-negative integer (line 121)
RECURSIVE bit_length(_)
bit_length(k) == IF k = 0 THEN 0 ELSE 1 + bit_length(k \div 2)

\* (k >> i) & 1 (line 128)
BitAt(k, i) == (k \div (2 ^ i)) % 2

\* the branches are the wrong way round
DoublingStepSwapped(a, b, bit) ==
    LET c == a * (2 * b - a)
        d == (a * a) + (b * b)
    IN  IF bit = 1 THEN << c, d >> ELSE << d, c + d >>

\* lines 125-133: the body of the loop, giving the new (a, b)
DoublingStep(a, b, bit) ==
    LET c == a * (2 * b - a)
        d == (a * a) + (b * b)
    IN  IF bit = 1 THEN << d, c + d >> ELSE << c, d >>

\* line 118 and the assignments of the loop: a and b as they are now
IterA == IF calls = << >> THEN 0 ELSE calls[Len(calls)].a
IterB == IF calls = << >> THEN 1 ELSE calls[Len(calls)].b

\* lines 121-123: the value of i in the next iteration, -1 when range() is
\* exhausted
IterI == (bit_length(args[1]) - 1) - Len(calls)

iterFixed == << entry, now, techniques, validate, duration, start_n,
                batch_start, results, summary, timerVars, timing_result,
                views, fn, args, ran, cache, NUMPY_AVAILABLE,
                NUMBA_AVAILABLE, CYTHON_AVAILABLE >>

\* lines 111-121: the guards and the initial values
IterEnter ==
    /\ pc = "call"
    /\ IF args[1] < 0
       THEN /\ ret' = NegativeIndex
            /\ pc' = "done"
       ELSE IF args[1] = 0
       THEN /\ ret' = Returns(0)
            /\ pc' = "done"
       ELSE /\ pc' = "for"
            /\ UNCHANGED ret
    /\ UNCHANGED << iterFixed, calls >>

\* lines 123-133: one iteration
IterStep ==
    /\ pc = "for"
    /\ IterI >= 0
    /\ LET ab == DoublingStep(IterA, IterB, BitAt(args[1], IterI))
       IN  calls' = Append(calls, [i |-> IterI, a |-> ab[1], b |-> ab[2]])
    /\ UNCHANGED << iterFixed, pc, ret >>

\* line 135
IterReturn ==
    /\ pc = "for"
    /\ IterI < 0
    /\ ret' = Returns(IterA)
    /\ pc' = "done"
    /\ UNCHANGED << iterFixed, calls >>

IterInit ==
    /\ entry = "calculate_iterative"
    /\ fn = "calculate_iterative"
    /\ \E k \in (0 - MaxNeg)..MaxIter : args = << k >>
    /\ pc = "call"
    /\ ret = << >>
    /\ now = 0
    /\ techniques = << >>
    /\ validate = FALSE
    /\ duration = 0
    /\ start_n = 0
    /\ batch_start = 0
    /\ results = << >>
    /\ summary = None
    /\ start_time = 0
    /\ n = 0
    /\ count = 0
    /\ error_msg = None
    /\ first_elapsed = None
    /\ timing_result = None
    /\ calls = << >>
    /\ views = << >>
    /\ ran = {}
    /\ cache = {}
    /\ NUMPY_AVAILABLE = TRUE
    /\ NUMBA_AVAILABLE = TRUE
    /\ CYTHON_AVAILABLE = TRUE

IterNext ==
    \/ IterEnter
    \/ IterStep
    \/ IterReturn

IterSpec == IterInit /\ [][IterNext]_vars

\* the n-th Fibonacci number, by the recurrence
RECURSIVE FibPair(_)
FibPair(k) ==
    IF k = 0
    THEN << 0, 1 >>
    ELSE LET p == FibPair(k - 1) IN << p[2], p[1] + p[2] >>

F(k) == IF k = 0 THEN 0 ELSE FibPair(k - 1)[2]

(***************************************************************************)
(* C29: calculate_iterative(n) returns what the recursive calculate(n)     *)
(* returns, which for n >= 0 is the n-th Fibonacci number; after each      *)
(* iteration of its loop (a, b) = (F(k), F(k + 1)), k being n >> i, the    *)
(* number formed by the bits of n processed so far.                        *)
(***************************************************************************)
C29_IterativeFastDoubling ==
    /\ \A j \in 1..Len(calls) :
           LET k == args[1] \div (2 ^ calls[j].i)
           IN  /\ calls[j].a = F(k)
               /\ calls[j].b = F(k + 1)
               /\ calls[j].i = bit_length(args[1]) - j
    /\ pc = "done" =>
           /\ ret = FastDoubling_calculate(args[1])
           /\ args[1] >= 0 => ret = Returns(F(args[1]))

\* calculate_iterative(37) after its six iterations: 37 is 100101 in binary
C29_Witness ==
    /\ pc = "done"
    /\ args = << 37 >>
    /\ Len(calls) = 6
    /\ calls[3].a = 3
    /\ calls[3].b = 5
    /\ calls[5].a = 2584
    /\ ret = Returns(24157817)

====
